---- MODULE Spec2Model ----
(***************************************************************************)
(* The D-Bus authentication handshake of zbus (zbus/src/handshake.rs):     *)
(* ClientHandshake and ServerHandshake driven by advance_handshake over a  *)
(* non-blocking byte stream.                                               *)
(*                                                                         *)
(* A byte is a one-character string ("NUL", "CR" and "LF" stand for the    *)
(* bytes 0, 13 and 10); buffers, lines and the two directions of the       *)
(* socket are sequences of bytes.                                          *)
(*                                                                         *)
(* The entry points of the zvariant serializer (zvariant/src/ser.rs):      *)
(* serialized_size and to_writer_for_signature driving a SerializerCommon  *)
(* over the discard sink NullWriteSeek and over a real writer.             *)
(***************************************************************************)
EXTENDS Integers, Sequences, FiniteSets, TLC

VARIABLES
    uid,        \* Uid::current() of the client process
    client,     \* the ClientHandshake
    server,     \* the ServerHandshake
    c2s,        \* bytes in flight from the client's socket to the server's
    s2c,        \* bytes in flight from the server's socket to the client's
    cret,       \* what the client's last advance_handshake returned
    sret,       \* what the server's last advance_handshake returned
    cfin,       \* what the client's last try_finish returned
    sfin,       \* what the server's last try_finish returned
    cwire,      \* history: every byte the client handed to sendmsg
    swire,      \* history: every byte the server handed to sendmsg
    net,        \* "pair": the two handshakes talk to each other;
                \* "client" / "server": that handshake talks to an arbitrary peer
    peer,       \* number of lines the arbitrary peer has sent
    value,      \* the value serialized_size and to_writer are called with
    ctxt,       \* the serialized::Context both are called with
    size_call,  \* the call of serialized_size: its serializer and its result
    write_call  \* the call of to_writer: its serializer and its result

\* the variables of the handshakes, and those of the serializer
hsVars == <<uid, client, server, c2s, s2c, cret, sret, cfin, sfin, cwire, swire, net, peer>>
serVars == <<value, ctxt, size_call, write_call>>

vars == <<uid, client, server, c2s, s2c, cret, sret, cfin, sfin, cwire, swire, net, peer,
          value, ctxt, size_call, write_call>>

----------------------------------------------------------------------------
(* Bounds of the model *)

\* the UIDs of the model are 0 and MaxUid
MaxUid == 10
\* number of hex characters of a GUID (32 in D-Bus)
GuidLen == 2
\* number of lines an arbitrary peer sends
MaxPeerLines == 4

(* Program constants *)

\* let mut buf = [0; 40];
RecvBufLen == 40

----------------------------------------------------------------------------
(* Bytes and byte strings *)

NUL == "NUL"
CR == "CR"
LF == "LF"
SP == " "
CRLF == <<CR, LF>>

Take(s, k) == SubSeq(s, 1, k)
Drop(s, k) == SubSeq(s, k + 1, Len(s))

StartsWith(b, p) == Len(p) <= Len(b) /\ Take(b, Len(p)) = p
EndsWith(b, p) == Len(p) <= Len(b) /\ Drop(b, Len(b) - Len(p)) = p
IsPrefix(p, b) == StartsWith(b, p)

W_AUTH == <<"A", "U", "T", "H">>
W_EXTERNAL == <<"E", "X", "T", "E", "R", "N", "A", "L">>
W_OK == <<"O", "K">>
W_BEGIN == <<"B", "E", "G", "I", "N">>
W_CANCEL == <<"C", "A", "N", "C", "E", "L">>
W_ERROR == <<"E", "R", "R", "O", "R">>
W_REJECTED == <<"R", "E", "J", "E", "C", "T", "E", "D">>
W_NEGOTIATE_UNIX_FD ==
    <<"N", "E", "G", "O", "T", "I", "A", "T", "E", "_", "U", "N", "I", "X", "_", "F", "D">>
W_AGREE_UNIX_FD ==
    <<"A", "G", "R", "E", "E", "_", "U", "N", "I", "X", "_", "F", "D">>
W_Unsupported == <<"U", "n", "s", "u", "p", "p", "o", "r", "t", "e", "d">>
W_command == <<"c", "o", "m", "m", "a", "n", "d">>

\* b"REJECTED EXTERNAL\r\n"
L_REJECTED == W_REJECTED \o <<SP>> \o W_EXTERNAL \o CRLF
\* b"ERROR Unsupported command\r\n"
L_ERROR == W_ERROR \o <<SP>> \o W_Unsupported \o <<SP>> \o W_command \o CRLF
\* b"NEGOTIATE_UNIX_FD\r\n"
L_NEGOTIATE == W_NEGOTIATE_UNIX_FD \o CRLF
\* b"AGREE_UNIX_FD\r\n"
L_AGREE == W_AGREE_UNIX_FD \o CRLF
\* b"BEGIN\r\n"
L_BEGIN == W_BEGIN \o CRLF

\* char::is_whitespace on the bytes of the model
IsWhitespace(c) == c \in {SP, CR, LF, "\t"}

\* BufRead::read_line on a byte slice: the bytes up to and including the first
\* LF, or all of them when there is none
ReadLine(buf) ==
    IF \E i \in 1..Len(buf) : buf[i] = LF
    THEN Take(buf, CHOOSE i \in 1..Len(buf) :
                       buf[i] = LF /\ \A j \in 1..(i - 1) : buf[j] # LF)
    ELSE buf

RECURSIVE SplitFrom(_, _, _, _)
SplitFrom(s, i, cur, acc) ==
    LET done == IF cur = <<>> THEN acc ELSE Append(acc, cur)
    IN  IF i > Len(s) THEN done
        ELSE IF IsWhitespace(s[i]) THEN SplitFrom(s, i + 1, <<>>, done)
        ELSE SplitFrom(s, i + 1, Append(cur, s[i]), acc)

\* str::split_whitespace: the maximal runs of non-whitespace, in order
SplitWhitespace(s) == SplitFrom(s, 1, <<>>, <<>>)

\* the k-th call of words.next(): None is the empty word
NoWord == <<>>
Word(words, k) == IF k <= Len(words) THEN words[k] ELSE NoWord

----------------------------------------------------------------------------
(* Numbers and their text *)

DigitChars == <<"0", "1", "2", "3", "4", "5", "6", "7", "8", "9">>
HexChars == DigitChars \o <<"a", "b", "c", "d", "e", "f">>
UpperHexChars == DigitChars \o <<"A", "B", "C", "D", "E", "F">>

IndexOf(seq, c) == CHOOSE i \in 1..Len(seq) : seq[i] = c
IsDigit(c) == \E i \in 1..Len(DigitChars) : DigitChars[i] = c
IsHexDigit(c) ==
    \/ \E i \in 1..Len(HexChars) : HexChars[i] = c
    \/ \E i \in 1..Len(UpperHexChars) : UpperHexChars[i] = c
HexDigitVal(c) ==
    IF \E i \in 1..Len(HexChars) : HexChars[i] = c
    THEN IndexOf(HexChars, c) - 1
    ELSE IndexOf(UpperHexChars, c) - 1

\* u32::to_string
RECURSIVE ToDecimal(_)
ToDecimal(n) ==
    IF n < 10 THEN <<DigitChars[n + 1]>>
    ELSE ToDecimal(n \div 10) \o <<DigitChars[(n % 10) + 1]>>

\* c as u32, for the characters to_string produces
CharCode(c) == 48 + (IndexOf(DigitChars, c) - 1)

\* char::from(u8): the digits, '+', and "?" for every other character
CharFrom(code) ==
    IF code >= 48 /\ code <= 57 THEN DigitChars[code - 47]
    ELSE IF code = 43 THEN "+"
    ELSE "?"

\* format!("{:x}", n): lower-case hexadecimal, no padding
RECURSIVE ToHex(_)
ToHex(n) ==
    IF n < 16 THEN <<HexChars[n + 1]>>
    ELSE ToHex(n \div 16) \o <<HexChars[(n % 16) + 1]>>

HexOfChar(c) == ToHex(CharCode(c))

RECURSIVE HexOfChars(_)
HexOfChars(s) ==
    IF s = <<>> THEN <<>> ELSE HexOfChar(Head(s)) \o HexOfChars(Tail(s))

\* Uid::current().to_string().chars().map(|c| format!("{:x}", c as u32)).collect()
UidStr(u) == HexOfChars(ToDecimal(u))

\* a parse result
Fail == [ok |-> FALSE, val |-> 0]
Parsed(v) == [ok |-> TRUE, val |-> v]

RECURSIVE Horner(_, _, _)
Horner(digits, base, acc) ==
    IF digits = <<>> THEN acc
    ELSE Horner(Tail(digits), base, acc * base + HexDigitVal(Head(digits)))

\* u8::from_str_radix(chunk, 16) on a chunk of one or two bytes
U8FromHex(chunk) ==
    LET body == IF Head(chunk) = "+" THEN Tail(chunk) ELSE chunk
    IN  IF body # <<>> /\ \A i \in 1..Len(body) : IsHexDigit(body[i])
        THEN Parsed(Horner(body, 16, 0))
        ELSE Fail

\* "4294967295", u32::MAX
U32MaxDigits == <<"4", "2", "9", "4", "9", "6", "7", "2", "9", "5">>

RECURSIVE StripZeros(_)
StripZeros(d) == IF Len(d) > 1 /\ Head(d) = "0" THEN StripZeros(Tail(d)) ELSE d

RECURSIVE LexLeq(_, _)
LexLeq(a, b) ==
    IF a = <<>> THEN TRUE
    ELSE IF Head(a) # Head(b) THEN HexDigitVal(Head(a)) < HexDigitVal(Head(b))
    ELSE LexLeq(Tail(a), Tail(b))

FitsU32(digits) ==
    LET d == StripZeros(digits)
    IN  Len(d) < Len(U32MaxDigits) \/ (Len(d) = Len(U32MaxDigits) /\ LexLeq(d, U32MaxDigits))

\* str::parse::<u32>
ParseU32(s) ==
    LET body == IF s # <<>> /\ Head(s) = "+" THEN Tail(s) ELSE s
    IN  IF body # <<>> /\ (\A i \in 1..Len(body) : IsDigit(body[i])) /\ FitsU32(body)
        THEN Parsed(Horner(body, 10, 0))
        ELSE Fail

\* id_from_str: each chunk of two bytes is a hex number, the code of one
\* character of a decimal number
RECURSIVE DecodeChunks(_)
DecodeChunks(s) ==
    IF s = <<>> THEN [ok |-> TRUE, val |-> <<>>]
    ELSE LET k == IF Len(s) >= 2 THEN 2 ELSE 1
             c == U8FromHex(Take(s, k))
             rest == DecodeChunks(Drop(s, k))
         IN  IF c.ok /\ rest.ok
             THEN [ok |-> TRUE, val |-> <<CharFrom(c.val)>> \o rest.val]
             ELSE [ok |-> FALSE, val |-> <<>>]

\* id_from_str parsing its argument as the decimal number, without decoding
id_from_str_NoDecode(s) == ParseU32(s)

id_from_str(s) ==
    LET id == DecodeChunks(s)
    IN  IF id.ok THEN ParseU32(id.val) ELSE Fail

----------------------------------------------------------------------------
(* GUIDs *)

\* Option<Guid>::None
NoGuid == <<>>

\* Guid::try_from(&str): a GUID is GuidLen hex digits
GuidValid(w) == Len(w) = GuidLen /\ \A i \in 1..Len(w) : IsHexDigit(w[i])

\* the GUIDs a server is constructed with
Guids == { [i \in 1..GuidLen |-> IF i = 1 THEN h ELSE "0"] : h \in {"1", "a"} }

Uids == {0, MaxUid}

----------------------------------------------------------------------------
(* The socket: a non-blocking, reliable, in-order byte stream.  A call of    *)
(* advance_handshake is one step of the model; what the peer does between   *)
(* two socket operations of one call shows as the operation finding fewer   *)
(* bytes (or less room) than the stream holds at the end of the call.       *)

\* Socket::sendmsg in a loop until the buffer is empty: the socket takes the
\* first k bytes, and the loop ends early with would-block when k < Len(buf)
FlushOutcomes(buf, tx) ==
    { [buf |-> Drop(buf, k), tx |-> tx \o Take(buf, k), ok |-> k = Len(buf)] :
        k \in 0..Len(buf) }

\* The positions of rx at which one of the successive recvmsg calls of a
\* read_command loop can end: each call returns between 1 and RecvBufLen
\* bytes, and the loop goes on from a position only when the buffer does not
\* end with CRLF there
RECURSIVE Boundaries(_, _, _, _, _)
Boundaries(buf0, rx, p, live, all) ==
    IF p > Len(rx) THEN all
    ELSE LET reached == \E q \in live : p - q <= RecvBufLen
             goes_on == reached /\ ~EndsWith(buf0 \o Take(rx, p), CRLF)
         IN  Boundaries(buf0, rx, p + 1,
                        IF goes_on THEN live \cup {p} ELSE live,
                        IF reached THEN all \cup {p} ELSE all)

\* while !buf.ends_with(b"\r\n") { recvmsg; extend }: ok when the loop ended
\* with a CRLF-terminated buffer, otherwise the read that would block
ReadOutcomes(buf0, rx) ==
    IF EndsWith(buf0, CRLF)
    THEN { [buf |-> buf0, rx |-> rx, ok |-> TRUE] }
    ELSE { [buf |-> buf0 \o Take(rx, p), rx |-> Drop(rx, p),
            ok |-> EndsWith(buf0 \o Take(rx, p), CRLF)] :
               p \in Boundaries(buf0, rx, 1, {0}, {0}) }

\* what a call of advance_handshake leaves behind: the handshake, the two
\* directions of the socket, the value returned and, for a would-block, the
\* socket operation that reported it
Res(h, rx, tx, ret, io) == [h |-> h, rx |-> rx, tx |-> tx, ret |-> ret, io |-> io]

\* a transition of a step: the handshake after it and the error it raised
\* ("" when it raised none)
Moved(h) == [h |-> h, err |-> ""]
Failed(h, e) == [h |-> h, err |-> e]

----------------------------------------------------------------------------
(* ClientHandshake *)

ClientNew ==
    [step |-> "Init", send_buffer |-> <<>>, recv_buffer |-> <<>>,
     server_guid |-> NoGuid, cap_unix_fd |-> FALSE]

\* flush_buffer with one sendmsg instead of the loop: a partial write counts
\* as a flushed buffer
ClientFlush_OneSend(h, tx) ==
    { [h |-> [h EXCEPT !.send_buffer = f.buf], tx |-> f.tx,
       ok |-> f.ok \/ Len(f.buf) < Len(h.send_buffer)] :
        f \in FlushOutcomes(h.send_buffer, tx) }

\* ClientHandshake::flush_buffer
ClientFlush(h, tx) ==
    { [h |-> [h EXCEPT !.send_buffer = f.buf], tx |-> f.tx, ok |-> f.ok] :
        f \in FlushOutcomes(h.send_buffer, tx) }

\* ClientHandshake::read_command
ClientReadCommand(h, rx) ==
    { [h |-> [h EXCEPT !.recv_buffer = r.buf], rx |-> r.rx, ok |-> r.ok] :
        r \in ReadOutcomes(<<>>, rx) }

\* the Init arm without the leading NUL byte
ClientOnInit_NoNul(h, u) ==
    [h EXCEPT !.send_buffer = W_AUTH \o <<SP>> \o W_EXTERNAL \o <<SP>>
                                  \o UidStr(u) \o CRLF,
              !.step = "WaitOauth"]

\* the Init arm
ClientOnInit(h, u) ==
    [h EXCEPT !.send_buffer = <<NUL>> \o W_AUTH \o <<SP>> \o W_EXTERNAL \o <<SP>>
                                  \o UidStr(u) \o CRLF,
              !.step = "WaitOauth"]

\* the WaitOauth arm going to Done without negotiating
ClientOnAuthReply_SkipFd(h) ==
    LET words == SplitWhitespace(ReadLine(h.recv_buffer))
    IN  IF Word(words, 1) = W_OK /\ Word(words, 2) # NoWord /\ Word(words, 3) = NoWord
        THEN IF GuidValid(Word(words, 2))
             THEN Moved([h EXCEPT !.server_guid = Word(words, 2),
                                  !.send_buffer = L_BEGIN,
                                  !.step = "Done"])
             ELSE Failed(h, "InvalidGUID")
        ELSE Failed(h, "Handshake")

\* the WaitOauth arm looking at the first two words only
ClientOnAuthReply_AnyTail(h) ==
    LET words == SplitWhitespace(ReadLine(h.recv_buffer))
    IN  IF Word(words, 1) = W_OK /\ Word(words, 2) # NoWord
        THEN IF GuidValid(Word(words, 2))
             THEN Moved([h EXCEPT !.server_guid = Word(words, 2),
                                  !.send_buffer = L_NEGOTIATE,
                                  !.step = "WaitNegociateFd"])
             ELSE Failed(h, "InvalidGUID")
        ELSE Failed(h, "Handshake")

\* the WaitOauth arm moving on without recording the GUID
ClientOnAuthReply_NoGuid(h) ==
    LET words == SplitWhitespace(ReadLine(h.recv_buffer))
    IN  IF Word(words, 1) = W_OK /\ Word(words, 2) # NoWord /\ Word(words, 3) = NoWord
        THEN IF GuidValid(Word(words, 2))
             THEN Moved([h EXCEPT !.send_buffer = L_NEGOTIATE,
                                  !.step = "WaitNegociateFd"])
             ELSE Failed(h, "InvalidGUID")
        ELSE Failed(h, "Handshake")

\* the WaitOauth arm recording the second word before it fails
ClientOnAuthReply_RecordsFirst(h) ==
    LET words == SplitWhitespace(ReadLine(h.recv_buffer))
    IN  IF Word(words, 1) = W_OK /\ Word(words, 2) # NoWord /\ Word(words, 3) = NoWord
        THEN IF GuidValid(Word(words, 2))
             THEN Moved([h EXCEPT !.server_guid = Word(words, 2),
                                  !.send_buffer = L_NEGOTIATE,
                                  !.step = "WaitNegociateFd"])
             ELSE Failed([h EXCEPT !.server_guid = Word(words, 2)], "InvalidGUID")
        ELSE Failed(h, "Handshake")

\* the WaitOauth arm, after read_command
ClientOnAuthReply(h) ==
    LET words == SplitWhitespace(ReadLine(h.recv_buffer))
    IN  IF Word(words, 1) = W_OK /\ Word(words, 2) # NoWord /\ Word(words, 3) = NoWord
        THEN IF GuidValid(Word(words, 2))
             THEN Moved([h EXCEPT !.server_guid = Word(words, 2),
                                  !.send_buffer = L_NEGOTIATE,
                                  !.step = "WaitNegociateFd"])
             ELSE Failed(h, "InvalidGUID")
        ELSE Failed(h, "Handshake")

\* the WaitNegociateFd arm taking ERROR for an agreement
ClientOnFdReply_ErrorAgrees(h) ==
    IF StartsWith(h.recv_buffer, W_AGREE_UNIX_FD) \/ StartsWith(h.recv_buffer, W_ERROR)
    THEN Moved([h EXCEPT !.cap_unix_fd = TRUE, !.send_buffer = L_BEGIN, !.step = "Done"])
    ELSE Failed(h, "Handshake")

\* the WaitNegociateFd arm, after read_command
ClientOnFdReply(h) ==
    IF StartsWith(h.recv_buffer, W_AGREE_UNIX_FD)
    THEN Moved([h EXCEPT !.cap_unix_fd = TRUE, !.send_buffer = L_BEGIN, !.step = "Done"])
    ELSE IF StartsWith(h.recv_buffer, W_ERROR)
    THEN Moved([h EXCEPT !.cap_unix_fd = FALSE, !.send_buffer = L_BEGIN, !.step = "Done"])
    ELSE Failed(h, "Handshake")

RECURSIVE ClientAdvanceHandshake(_, _, _, _)

\* a step that reads a reply: read_command()?, then the arm's transition
ClientReadStep(h, u, rx, tx) ==
    UNION { IF ~r.ok
            THEN { Res(r.h, r.rx, tx, "WouldBlock", "Read") }
            ELSE LET t == IF h.step = "WaitOauth" THEN ClientOnAuthReply(r.h)
                          ELSE ClientOnFdReply(r.h)
                 IN  IF t.err # ""
                     THEN { Res(t.h, r.rx, tx, t.err, "None") }
                     ELSE ClientAdvanceHandshake(t.h, u, r.rx, tx) :
            r \in ClientReadCommand(h, rx) }

\* ClientHandshake::advance_handshake: every outcome of one call
ClientAdvanceHandshake(h, u, rx, tx) ==
    UNION { IF ~f.ok
            THEN { Res(f.h, rx, f.tx, "WouldBlock", "Write") }
            ELSE CASE f.h.step = "Init" ->
                        ClientAdvanceHandshake(ClientOnInit(f.h, u), u, rx, f.tx)
                   [] f.h.step \in {"WaitOauth", "WaitNegociateFd"} ->
                        ClientReadStep(f.h, u, rx, f.tx)
                   [] f.h.step = "Done" ->
                        { Res(f.h, rx, f.tx, "Ok", "None") } :
            f \in ClientFlush(h, tx) }

\* next_io_operation decided by the step alone
ClientNextIoOperation_StepOnly(h) ==
    IF h.step \in {"WaitOauth", "WaitNegociateFd"} THEN "Read" ELSE "None"

\* ClientHandshake::next_io_operation
ClientNextIoOperation(h) ==
    IF h.send_buffer = <<>>
    THEN IF h.step \in {"WaitOauth", "WaitNegociateFd"} THEN "Read" ELSE "None"
    ELSE "Write"

\* try_finish that succeeds one step early
ClientTryFinishResult_Early(h) ==
    IF h.step \in {"WaitNegociateFd", "Done"}
    THEN [ok |-> TRUE, server_guid |-> h.server_guid, cap_unix_fd |-> h.cap_unix_fd,
          self |-> h]
    ELSE [ok |-> FALSE, server_guid |-> NoGuid, cap_unix_fd |-> FALSE, self |-> h]

\* ClientHandshake::try_finish: Ok(Authenticated) or Err(self)
ClientTryFinishResult(h) ==
    IF h.step = "Done"
    THEN [ok |-> TRUE, server_guid |-> h.server_guid, cap_unix_fd |-> h.cap_unix_fd,
          self |-> h]
    ELSE [ok |-> FALSE, server_guid |-> NoGuid, cap_unix_fd |-> FALSE, self |-> h]

----------------------------------------------------------------------------
(* ServerHandshake *)

\* no AUTH line is accepted at present
NoUid == 0 - 1

\* ServerHandshake::new; `accepted` is a history field: the UID decoded from
\* the AUTH line whose acceptance is in force, NoUid when there is none
ServerNew(guid, client_uid) ==
    [step |-> "WaitingForNull", buffer |-> <<>>, server_guid |-> guid,
     cap_unix_fd |-> FALSE, client_uid |-> client_uid, accepted |-> NoUid]

\* flush_buffer draining the whole buffer after a partial write
ServerFlush_DropRest(h, tx) ==
    { [h |-> [h EXCEPT !.buffer = <<>>], tx |-> f.tx, ok |-> TRUE] :
        f \in FlushOutcomes(h.buffer, tx) }

\* ServerHandshake::flush_buffer
ServerFlush(h, tx) ==
    { [h |-> [h EXCEPT !.buffer = f.buf], tx |-> f.tx, ok |-> f.ok] :
        f \in FlushOutcomes(h.buffer, tx) }

\* ServerHandshake::read_command
ServerReadCommand(h, rx) ==
    { [h |-> [h EXCEPT !.buffer = r.buf], rx |-> r.rx, ok |-> r.ok] :
        r \in ReadOutcomes(h.buffer, rx) }

\* the reply put behind the line it answers instead of in its place
ServerReply_Appends(h, line, step) ==
    [h EXCEPT !.buffer = @ \o line, !.step = step,
              !.accepted = IF step = "SendingAuthError" THEN NoUid ELSE @]

\* the reply to a line, and the step that sends it
ServerReply(h, line, step) ==
    [h EXCEPT !.buffer = line, !.step = step,
              !.accepted = IF step = "SendingAuthError" THEN NoUid ELSE @]

\* the AUTH EXTERNAL arm without the comparison with client_uid
ServerOnAuthExternal_AnyUid(h, word) ==
    LET id == id_from_str(word)
    IN  IF ~id.ok THEN Failed(h, "Handshake")
        ELSE Moved([ServerReply(h, W_OK \o <<SP>> \o h.server_guid \o CRLF, "SendingAuthOK")
                        EXCEPT !.accepted = id.val])

\* the (Some("AUTH"), Some("EXTERNAL"), Some(uid), None) arm
ServerOnAuthExternal(h, word) ==
    LET id == id_from_str(word)
    IN  IF ~id.ok THEN Failed(h, "Handshake")
        ELSE IF id.val = h.client_uid
        THEN Moved([ServerReply(h, W_OK \o <<SP>> \o h.server_guid \o CRLF, "SendingAuthOK")
                        EXCEPT !.accepted = id.val])
        ELSE Moved(ServerReply(h, L_REJECTED, "SendingAuthError"))

\* the WaitingForAuth arm taking BEGIN as the end of the handshake
ServerOnAuth_BeginDone(h) ==
    LET words == SplitWhitespace(ReadLine(h.buffer))
        w1 == Word(words, 1)
        w2 == Word(words, 2)
        w3 == Word(words, 3)
        w4 == Word(words, 4)
    IN  IF w1 = W_AUTH /\ w2 = W_EXTERNAL /\ w3 # NoWord /\ w4 = NoWord
        THEN ServerOnAuthExternal(h, w3)
        ELSE IF w1 = W_AUTH \/ w1 = W_ERROR
        THEN Moved(ServerReply(h, L_REJECTED, "SendingAuthError"))
        ELSE IF w1 = W_BEGIN /\ w2 = NoWord /\ w3 = NoWord /\ w4 = NoWord
        THEN Moved([h EXCEPT !.step = "Done"])
        ELSE Moved(ServerReply(h, L_ERROR, "SendingAuthError"))

\* the WaitingForAuth arm taking every line that starts with BEGIN for BEGIN
ServerOnAuth_BeginAnyTail(h) ==
    LET words == SplitWhitespace(ReadLine(h.buffer))
        w1 == Word(words, 1)
        w2 == Word(words, 2)
        w3 == Word(words, 3)
        w4 == Word(words, 4)
    IN  IF w1 = W_AUTH /\ w2 = W_EXTERNAL /\ w3 # NoWord /\ w4 = NoWord
        THEN ServerOnAuthExternal(h, w3)
        ELSE IF w1 = W_AUTH \/ w1 = W_ERROR
        THEN Moved(ServerReply(h, L_REJECTED, "SendingAuthError"))
        ELSE IF w1 = W_BEGIN
        THEN Failed(h, "Handshake")
        ELSE Moved(ServerReply(h, L_ERROR, "SendingAuthError"))

\* the WaitingForAuth arm, after read_command
ServerOnAuth(h) ==
    LET words == SplitWhitespace(ReadLine(h.buffer))
        w1 == Word(words, 1)
        w2 == Word(words, 2)
        w3 == Word(words, 3)
        w4 == Word(words, 4)
    IN  IF w1 = W_AUTH /\ w2 = W_EXTERNAL /\ w3 # NoWord /\ w4 = NoWord
        THEN ServerOnAuthExternal(h, w3)
        ELSE IF w1 = W_AUTH \/ w1 = W_ERROR
        THEN Moved(ServerReply(h, L_REJECTED, "SendingAuthError"))
        ELSE IF w1 = W_BEGIN /\ w2 = NoWord /\ w3 = NoWord /\ w4 = NoWord
        THEN Failed(h, "Handshake")
        ELSE Moved(ServerReply(h, L_ERROR, "SendingAuthError"))

\* the WaitingForBegin arm agreeing to NEGOTIATE_UNIX_FD without recording it
ServerOnBegin_NoCap(h) ==
    LET words == SplitWhitespace(ReadLine(h.buffer))
        w1 == Word(words, 1)
        w2 == Word(words, 2)
    IN  IF w1 = W_BEGIN /\ w2 = NoWord
        THEN Moved([h EXCEPT !.step = "Done"])
        ELSE IF w1 = W_CANCEL /\ w2 = NoWord
        THEN Moved(ServerReply(h, L_REJECTED, "SendingAuthError"))
        ELSE IF w1 = W_ERROR
        THEN Moved(ServerReply(h, L_REJECTED, "SendingAuthError"))
        ELSE IF w1 = W_NEGOTIATE_UNIX_FD /\ w2 = NoWord
        THEN Moved(ServerReply(h, L_AGREE, "SendingBeginMessage"))
        ELSE Moved(ServerReply(h, L_ERROR, "SendingBeginMessage"))

\* the WaitingForBegin arm taking every line that starts with BEGIN for BEGIN
ServerOnBegin_BeginAnyTail(h) ==
    LET words == SplitWhitespace(ReadLine(h.buffer))
        w1 == Word(words, 1)
        w2 == Word(words, 2)
    IN  IF w1 = W_BEGIN
        THEN Moved([h EXCEPT !.step = "Done"])
        ELSE IF w1 = W_CANCEL /\ w2 = NoWord
        THEN Moved(ServerReply(h, L_REJECTED, "SendingAuthError"))
        ELSE IF w1 = W_ERROR
        THEN Moved(ServerReply(h, L_REJECTED, "SendingAuthError"))
        ELSE IF w1 = W_NEGOTIATE_UNIX_FD /\ w2 = NoWord
        THEN Moved([ServerReply(h, L_AGREE, "SendingBeginMessage")
                        EXCEPT !.cap_unix_fd = TRUE])
        ELSE Moved(ServerReply(h, L_ERROR, "SendingBeginMessage"))

\* the WaitingForBegin arm answering CANCEL and ERROR through
\* SendingBeginMessage, which returns to WaitingForBegin
ServerOnBegin_CancelKeeps(h) ==
    LET words == SplitWhitespace(ReadLine(h.buffer))
        w1 == Word(words, 1)
        w2 == Word(words, 2)
    IN  IF w1 = W_BEGIN /\ w2 = NoWord
        THEN Moved([h EXCEPT !.step = "Done"])
        ELSE IF w1 = W_CANCEL /\ w2 = NoWord
        THEN Moved(ServerReply(h, L_REJECTED, "SendingBeginMessage"))
        ELSE IF w1 = W_ERROR
        THEN Moved(ServerReply(h, L_REJECTED, "SendingBeginMessage"))
        ELSE IF w1 = W_NEGOTIATE_UNIX_FD /\ w2 = NoWord
        THEN Moved([ServerReply(h, L_AGREE, "SendingBeginMessage")
                        EXCEPT !.cap_unix_fd = TRUE])
        ELSE Moved(ServerReply(h, L_ERROR, "SendingBeginMessage"))

\* the WaitingForBegin arm, after read_command
ServerOnBegin(h) ==
    LET words == SplitWhitespace(ReadLine(h.buffer))
        w1 == Word(words, 1)
        w2 == Word(words, 2)
    IN  IF w1 = W_BEGIN /\ w2 = NoWord
        THEN Moved([h EXCEPT !.step = "Done"])
        ELSE IF w1 = W_CANCEL /\ w2 = NoWord
        THEN Moved(ServerReply(h, L_REJECTED, "SendingAuthError"))
        ELSE IF w1 = W_ERROR
        THEN Moved(ServerReply(h, L_REJECTED, "SendingAuthError"))
        ELSE IF w1 = W_NEGOTIATE_UNIX_FD /\ w2 = NoWord
        THEN Moved([ServerReply(h, L_AGREE, "SendingBeginMessage")
                        EXCEPT !.cap_unix_fd = TRUE])
        ELSE Moved(ServerReply(h, L_ERROR, "SendingBeginMessage"))

\* every Sending step leading to WaitingForBegin
ServerAfterSending_AllToBegin(step) == "WaitingForBegin"

\* the step after a Sending step, once its line is flushed
ServerAfterSending(step) ==
    IF step = "SendingAuthError" THEN "WaitingForAuth" ELSE "WaitingForBegin"

RECURSIVE ServerAdvanceHandshake(_, _, _)

\* the WaitingForNull arm without the comparison of the byte with 0
ServerNullStep_AnyByte(h, rx, tx) ==
    { Res(h, rx, tx, "WouldBlock", "Read") } \cup
    ( IF rx = <<>> THEN {}
      ELSE ServerAdvanceHandshake([h EXCEPT !.step = "WaitingForAuth"], Tail(rx), tx) )

\* the WaitingForNull arm: recvmsg into a buffer of one byte
ServerNullStep(h, rx, tx) ==
    { Res(h, rx, tx, "WouldBlock", "Read") } \cup
    ( IF rx = <<>> THEN {}
      ELSE IF Head(rx) # NUL
      THEN { Res(h, Tail(rx), tx, "Handshake", "None") }
      ELSE ServerAdvanceHandshake([h EXCEPT !.step = "WaitingForAuth"], Tail(rx), tx) )

\* a step that reads a line: read_command()?, then the arm's transition
ServerReadStep(h, rx, tx) ==
    UNION { IF ~r.ok
            THEN { Res(r.h, r.rx, tx, "WouldBlock", "Read") }
            ELSE LET t == IF h.step = "WaitingForAuth" THEN ServerOnAuth(r.h)
                          ELSE ServerOnBegin(r.h)
                 IN  IF t.err # ""
                     THEN { Res(t.h, r.rx, tx, t.err, "None") }
                     ELSE ServerAdvanceHandshake(t.h, r.rx, tx) :
            r \in ServerReadCommand(h, rx) }

\* a step that sends a line: flush_buffer()?, then the next step
ServerSendStep(h, rx, tx) ==
    UNION { IF ~f.ok
            THEN { Res(f.h, rx, f.tx, "WouldBlock", "Write") }
            ELSE ServerAdvanceHandshake(
                     [f.h EXCEPT !.step = ServerAfterSending(h.step)], rx, f.tx) :
            f \in ServerFlush(h, tx) }

\* ServerHandshake::advance_handshake: every outcome of one call
ServerAdvanceHandshake(h, rx, tx) ==
    CASE h.step = "WaitingForNull" -> ServerNullStep(h, rx, tx)
      [] h.step \in {"WaitingForAuth", "WaitingForBegin"} -> ServerReadStep(h, rx, tx)
      [] h.step \in {"SendingAuthError", "SendingAuthOK", "SendingBeginMessage"} ->
            ServerSendStep(h, rx, tx)
      [] h.step = "Done" -> { Res(h, rx, tx, "Ok", "None") }

\* ServerHandshake::next_io_operation
ServerNextIoOperation(h) ==
    CASE h.step = "Done" -> "None"
      [] h.step \in {"WaitingForNull", "WaitingForAuth", "WaitingForBegin"} -> "Read"
      [] h.step \in {"SendingAuthOK", "SendingAuthError", "SendingBeginMessage"} -> "Write"

\* the poll flags of ServerHandshake::blocking_finish after a would-block
ServerPollFlags(h) ==
    CASE h.step \in {"SendingAuthError", "SendingAuthOK", "SendingBeginMessage"} -> "POLLOUT"
      [] h.step \in {"WaitingForNull", "WaitingForBegin", "WaitingForAuth"} -> "POLLIN"
      [] h.step = "Done" -> "unreachable"

\* the poll flags of ClientHandshake::blocking_finish after a would-block
ClientPollFlags(h) ==
    CASE ClientNextIoOperation(h) = "Write" -> "POLLOUT"
      [] ClientNextIoOperation(h) = "Read" -> "POLLIN"
      [] OTHER -> "unreachable"

\* ServerHandshake::try_finish: Ok(Authenticated) or Err(self)
ServerTryFinishResult(h) ==
    IF h.step = "Done"
    THEN [ok |-> TRUE, server_guid |-> h.server_guid, cap_unix_fd |-> h.cap_unix_fd,
          self |-> h]
    ELSE [ok |-> FALSE, server_guid |-> NoGuid, cap_unix_fd |-> FALSE, self |-> h]

----------------------------------------------------------------------------
(* The serializer: values, the calls their serialization makes on a        *)
(* SerializerCommon, and SerializerCommon over its sinks                    *)

\* largest base position of a Context in the model
MaxPosition == 7

\* the maximum of each container-depth counter in the model
MaxDepth == 2

\* serialized::Context: the primary format at a base position
Context(position) == [format |-> "DBus", position |-> position]

\* a value: kind, and the fields its kind uses
Val(k, s, fd, align, fields) == [k |-> k, s |-> s, fd |-> fd, align |-> align, fields |-> fields]
\* a number of 1, 2, 4 or 8 bytes: u8, u16, u32, u64
Num(size) == Val("num", <<>>, 0, size, <<>>)
Str(s) == Val("str", s, 0, 4, <<>>)
Fd(fd) == Val("fd", <<>>, fd, 4, <<>>)
Struct(fields) == Val("struct", <<>>, 0, 8, fields)
\* an array of elements of one type, of the given alignment
Array(align, elems) == Val("array", <<>>, 0, align, elems)
Variant(inner) == Val("variant", <<>>, 0, 1, <<inner>>)

RECURSIVE Nested(_, _, _)

\* inner in n containers of one kind, each within the next
Nested(k, n, inner) ==
    IF n = 0 THEN inner
    ELSE LET v == Nested(k, n - 1, inner)
         IN  CASE k = "structure" -> Struct(<<v>>)
               [] k = "array" -> Array(v.align, <<v>>)
               [] k = "variant" -> Variant(v)

\* "hello world"
HelloWorld == <<"h", "e", "l", "l", "o", " ", "w", "o", "r", "l", "d">>

\* the values of the model
SerValues ==
    << Num(1), Num(2), Num(4), Num(8),
       Str(<<>>), Str(HelloWorld),
       Struct(<<Str(HelloWorld \o <<"!">>), Num(8)>>),
       Struct(<<Str(<<"a", "b", "c">>), Num(8)>>),
       Struct(<<Num(1), Num(4)>>),
       Struct(<<Num(1), Struct(<<Num(1), Num(8)>>)>>),
       Array(8, <<>>), Array(8, <<Num(8), Num(8)>>), Array(1, <<Num(1), Num(1), Num(1)>>),
       Array(4, <<Str(<<"a">>), Str(<<"b", "c">>)>>),
       Fd(3), Struct(<<Fd(3), Fd(3)>>), Struct(<<Fd(3), Num(1), Fd(4), Fd(3)>>),
       Struct(<<Fd(4), Fd(5)>>),
       Variant(Num(4)), Variant(Struct(<<Num(1), Str(<<"a">>)>>)),
       Nested("structure", MaxDepth, Num(1)), Nested("structure", MaxDepth + 1, Num(1)),
       Nested("array", MaxDepth, Num(1)), Nested("array", MaxDepth + 1, Num(1)),
       Nested("variant", MaxDepth, Num(1)), Nested("variant", MaxDepth + 1, Num(1)),
       Nested("structure", MaxDepth,
              Nested("array", MaxDepth, Nested("variant", MaxDepth, Num(8)))),
       Struct(<<Struct(<<Num(1)>>), Nested("array", MaxDepth + 1, Num(1)), Num(8)>>) >>

\* the calls a serialization makes on SerializerCommon
\* add_padding(align), write_all(bytes), add_fd(fd), write_idx: the
\* write_all of the index the last add_fd returned, and inc / dec of the
\* container-depth counter of a kind
Op(op, align, bytes, fd, kind) ==
    [op |-> op, align |-> align, bytes |-> bytes, fd |-> fd, kind |-> kind]
PadOp(align) == Op("add_padding", align, <<>>, 0, "")
WriteOp(bytes) == Op("write_all", 1, bytes, 0, "")
DepthOp(op, kind) == Op(op, 1, <<>>, 0, kind)

RECURSIVE SignatureOf(_)
RECURSIVE SignatureOfAll(_)

\* the signature of a value (the element type of an empty array is not kept
\* in a value: no variant of the model holds one)
SignatureOf(v) ==
    CASE v.k = "num" -> (CASE v.align = 1 -> <<"y">> [] v.align = 2 -> <<"q">>
                           [] v.align = 4 -> <<"u">> [] v.align = 8 -> <<"t">>)
      [] v.k = "str" -> <<"s">>
      [] v.k = "fd" -> <<"h">>
      [] v.k = "variant" -> <<"v">>
      [] v.k = "struct" -> <<"(">> \o SignatureOfAll(v.fields) \o <<")">>
      [] v.k = "array" /\ v.fields # <<>> -> <<"a">> \o SignatureOf(Head(v.fields))

SignatureOfAll(vs) ==
    IF vs = <<>> THEN <<>> ELSE SignatureOf(Head(vs)) \o SignatureOfAll(Tail(vs))

\* n bytes of a number; the four bytes of an array's length; a u32 below 16,
\* low byte first
Bytes(n) == [i \in 1..n |-> "#"]
LenBytes == [i \in 1..4 |-> "len"]
U32(n) == <<HexChars[n + 1], "0", "0", "0">>

RECURSIVE Serialize(_)
RECURSIVE SerializeAll(_)

\* (Serialize_NoNul: the same, strings without the trailing NUL)
\* value.serialize(&mut ser) in the primary format: padding to the type's
\* alignment before every scalar and container header; strings and arrays
\* with a length of 4 bytes, strings with a trailing NUL; structs aligned to
\* 8; a file descriptor as the index add_fd returns, a number of 4 bytes; a
\* variant as the signature of its value (its length in one byte, its codes,
\* a NUL) and the value; the depth counter of a container's kind goes up on
\* entering it and down on leaving it
Serialize_NoNul(v) ==
    CASE v.k = "num" -> <<PadOp(v.align), WriteOp(Bytes(v.align))>>
      [] v.k = "str" -> <<PadOp(4), WriteOp(U32(Len(v.s))), WriteOp(v.s)>>
      [] v.k = "fd" ->
             <<Op("add_fd", 1, <<>>, v.fd, ""), PadOp(4), Op("write_idx", 1, <<>>, 0, "")>>
      [] v.k = "struct" ->
             <<PadOp(8), DepthOp("inc", "structure")>> \o SerializeAll(v.fields)
                 \o <<DepthOp("dec", "structure")>>
      [] v.k = "array" ->
             <<PadOp(4), WriteOp(LenBytes), PadOp(v.align), DepthOp("inc", "array")>>
                 \o SerializeAll(v.fields) \o <<DepthOp("dec", "array")>>
      [] v.k = "variant" ->
             <<DepthOp("inc", "variant"), PadOp(1),
               WriteOp(<<HexChars[Len(SignatureOf(v.fields[1])) + 1]>>
                           \o SignatureOf(v.fields[1]) \o <<NUL>>)>>
                 \o SerializeAll(v.fields) \o <<DepthOp("dec", "variant")>>

Serialize(v) ==
    CASE v.k = "num" -> <<PadOp(v.align), WriteOp(Bytes(v.align))>>
      [] v.k = "str" -> <<PadOp(4), WriteOp(U32(Len(v.s))), WriteOp(v.s \o <<NUL>>)>>
      [] v.k = "fd" ->
             <<Op("add_fd", 1, <<>>, v.fd, ""), PadOp(4), Op("write_idx", 1, <<>>, 0, "")>>
      [] v.k = "struct" ->
             <<PadOp(8), DepthOp("inc", "structure")>> \o SerializeAll(v.fields)
                 \o <<DepthOp("dec", "structure")>>
      [] v.k = "array" ->
             <<PadOp(4), WriteOp(LenBytes), PadOp(v.align), DepthOp("inc", "array")>>
                 \o SerializeAll(v.fields) \o <<DepthOp("dec", "array")>>
      [] v.k = "variant" ->
             <<DepthOp("inc", "variant"), PadOp(1),
               WriteOp(<<HexChars[Len(SignatureOf(v.fields[1])) + 1]>>
                           \o SignatureOf(v.fields[1]) \o <<NUL>>)>>
                 \o SerializeAll(v.fields) \o <<DepthOp("dec", "variant")>>

SerializeAll(vs) == IF vs = <<>> THEN <<>> ELSE Serialize(Head(vs)) \o SerializeAll(Tail(vs))

\* utils::padding_for_n_bytes
padding_for_n_bytes(n, align) == (align - (n % align)) % align

\* FdList::Number(n) and FdList::Fds(fds)
FdNumber(n) == [form |-> "Number", n |-> n, fds |-> <<>>]
FdFds(fds) == [form |-> "Fds", n |-> 0, fds |-> fds]

\* the writers: the discard sink, the Cursor<Vec<u8>> of to_bytes, and any
\* other Write + Seek
Sinks == {"NullWriteSeek", "Cursor", "Write"}

\* SerializerCommon; out is what the writer holds of this serialization
SerializerNew(sink, fds, c) ==
    [ctxt |-> c, sink |-> sink, out |-> <<>>, bytes_written |-> 0, fds |-> fds,
     container_depths |-> [array |-> 0, structure |-> 0, variant |-> 0]]

\* SerializerCommon::abs_pos
abs_pos(s) == s.ctxt.position + s.bytes_written

\* a discard sink that accepts nothing
NullWrite_Zero(buf) == 0

\* NullWriteSeek::write
NullWrite(buf) == Len(buf)

\* the number of bytes of buf the writer has accepted when write_all
\* returns: all of them, or fewer when a write returned Ok(0) or an error
SinkAccepts(sink, buf) ==
    CASE sink = "NullWriteSeek" -> {NullWrite(buf)}
      [] sink = "Cursor" -> {Len(buf)}
      [] sink = "Write" -> 0..Len(buf)

\* what a call on the serializer leaves and returns: Ok(val) or Err(err)
Ok(s, val) == [s |-> s, ok |-> TRUE, val |-> val, err |-> "none"]
Err(s, err) == [s |-> s, ok |-> FALSE, val |-> 0, err |-> err]

\* Write::write_all over SerializerCommon::write: bytes_written grows by what
\* the writer accepted
write_all(s, buf) ==
    { LET after == [s EXCEPT !.bytes_written = @ + k,
                             !.out = IF s.sink = "NullWriteSeek" THEN @ ELSE @ \o Take(buf, k)]
      IN  IF k = Len(buf) THEN Ok(after, 0) ELSE Err(after, "InputOutput") :
        k \in SinkAccepts(s.sink, buf) }

\* add_padding that returns the alignment
add_padding_ReturnsAlignment(s, alignment) ==
    LET padding == padding_for_n_bytes(abs_pos(s), alignment)
    IN  IF padding > 0
        THEN { IF o.ok THEN Ok(o.s, alignment) ELSE o :
                   o \in write_all(s, [i \in 1..padding |-> NUL]) }
        ELSE { Ok(s, alignment) }

\* SerializerCommon::add_padding
add_padding(s, alignment) ==
    LET padding == padding_for_n_bytes(abs_pos(s), alignment)
    IN  IF padding > 0
        THEN { IF o.ok THEN Ok(o.s, padding) ELSE o :
                   o \in write_all(s, [i \in 1..padding |-> NUL]) }
        ELSE { Ok(s, padding) }

\* the descriptors the process holds when the encode begins, and the largest
\* descriptor number of the model
OpenFds == {3, 4}
MaxFd == 7

\* BorrowedFd::borrow_raw(fd).try_clone_to_owned(): a descriptor number that
\* was not in use, or an error (fd is not open, or no descriptor is left)
try_clone_to_owned(fds, fd) ==
    LET used == OpenFds \cup {fds[i] : i \in 1..Len(fds)}
    IN  IF fd \in used THEN ((3..MaxFd) \ used) \cup {0} ELSE {0}

\* fds.iter().position(|x| x.as_raw_fd() == fd), counted from 0; Len(fds) + 1
\* stands for None
FdPosition(fds, fd) ==
    IF \E i \in 1..Len(fds) : fds[i] = fd
    THEN (CHOOSE i \in 1..Len(fds) : fds[i] = fd /\ \A j \in 1..(i - 1) : fds[j] # fd) - 1
    ELSE Len(fds) + 1

\* add_fd that turns a count into a list and a list into a count
add_fd_SwapsForm(s, fd) ==
    IF s.fds.form = "Number"
    THEN { Ok([s EXCEPT !.fds = [form |-> "Fds", n |-> 0, fds |-> <<fd>>]], s.fds.n) }
    ELSE { Ok([s EXCEPT !.fds = [form |-> "Number", n |-> Len(s.fds.fds) + 1,
                                 fds |-> <<>>]], Len(s.fds.fds)) }

\* add_fd that replaces the last entry of the list
add_fd_Replaces(s, fd) ==
    IF s.fds.form = "Fds" /\ s.fds.fds # <<>>
    THEN { Ok([s EXCEPT !.fds.fds = [@ EXCEPT ![Len(@)] = fd]], Len(s.fds.fds) - 1) }
    ELSE { Ok([s EXCEPT !.fds.fds = Append(@, fd), !.fds.n = @ + 1], 0) }

\* SerializerCommon::add_fd: the index, or the error of try_clone_to_owned (0
\* stands for its error); the list holds the duplicates
add_fd(s, fd) ==
    IF s.fds.form = "Fds"
    THEN IF FdPosition(s.fds.fds, fd) <= Len(s.fds.fds)
         THEN { Ok(s, FdPosition(s.fds.fds, fd)) }
         ELSE { IF dup = 0
                THEN Err(s, "InputOutput")
                ELSE Ok([s EXCEPT !.fds.fds = Append(@, dup)], Len(s.fds.fds)) :
                    dup \in try_clone_to_owned(s.fds.fds, fd) }
    ELSE { Ok([s EXCEPT !.fds.n = @ + 1], s.fds.n) }

\* inc_array / inc_structure / inc_variant that have no maximum
inc_NoMaximum(s, kind) == { Ok([s EXCEPT !.container_depths[kind] = @ + 1], 0) }

\* ContainerDepths::inc_array / inc_structure / inc_variant, assigned to
\* container_depths: the counter one higher, or the depth-exceeded error
inc(s, kind) ==
    IF s.container_depths[kind] + 1 > MaxDepth
    THEN { Err(s, "MaxDepthExceeded") }
    ELSE { Ok([s EXCEPT !.container_depths[kind] = @ + 1], 0) }

\* ContainerDepths::dec_array / dec_structure / dec_variant
dec(s, kind) == { Ok([s EXCEPT !.container_depths[kind] = @ - 1], 0) }

\* a call of serialized_size or of to_writer: its serializer, the number of
\* calls on it the serialization has made, what the last of them returned,
\* the descriptors add_fd was given with the indices it returned, and what
\* the call returned: its result, its error and the length in it
CallNew(sink, fds, c) ==
    [ser |-> SerializerNew(sink, fds, c), pc |-> 1, val |-> 0, refs |-> <<>>,
     ret |-> "running", err |-> "none", len |-> 0]

\* the next call of the serialization on its serializer; an error ends it
CallStep(call, ops) ==
    LET op == ops[call.pc]
        outs == CASE op.op = "add_padding" -> add_padding(call.ser, op.align)
                  [] op.op = "write_all" -> write_all(call.ser, op.bytes)
                  [] op.op = "write_idx" ->
                         write_all(call.ser, U32(call.refs[Len(call.refs)].idx))
                  [] op.op = "add_fd" -> add_fd(call.ser, op.fd)
                  [] op.op = "inc" -> inc(call.ser, op.kind)
                  [] op.op = "dec" -> dec(call.ser, op.kind)
    IN  { [call EXCEPT !.ser = o.s,
                       !.val = o.val,
                       !.refs = IF op.op = "add_fd" /\ o.ok
                                THEN Append(@, [fd |-> op.fd, idx |-> o.val]) ELSE @,
                       !.pc = IF o.ok THEN @ + 1 ELSE @,
                       !.ret = IF o.ok THEN "running" ELSE "Err",
                       !.err = o.err] : o \in outs }

\* let len = ser.0.bytes_written, and the match on fds that follows
CallReturn(call, form) ==
    [call EXCEPT !.ret = IF call.ser.fds.form = form THEN "Ok" ELSE "unreachable",
                 !.len = call.ser.bytes_written]

\* no serializer is at work
NoSerializer ==
    /\ value = Num(1)
    /\ ctxt = Context(0)
    /\ size_call = CallNew("NullWriteSeek", FdNumber(0), Context(0))
    /\ write_call = CallNew("Cursor", FdFds(<<>>), Context(0))

----------------------------------------------------------------------------
(* The state machine *)

\* the value of cret and sret: what advance_handshake returned ("None" before
\* the first call) and the socket operation that reported a would-block
Ret(r, io) == [r |-> r, io |-> io]

\* the value of cfin and sfin before try_finish was called
NotCalled == [called |-> FALSE, ok |-> FALSE, server_guid |-> NoGuid, cap_unix_fd |-> FALSE]
Finished(f) ==
    [called |-> TRUE, ok |-> f.ok, server_guid |-> f.server_guid,
     cap_unix_fd |-> f.cap_unix_fd]

InitWith(n, guids) ==
    /\ net = n
    /\ uid \in Uids
    /\ client = ClientNew
    /\ \E g \in guids, u \in Uids : server = ServerNew(g, u)
    /\ c2s = <<>>
    /\ s2c = <<>>
    /\ cret = Ret("None", "None")
    /\ sret = Ret("None", "None")
    /\ cfin = NotCalled
    /\ sfin = NotCalled
    /\ cwire = <<>>
    /\ swire = <<>>
    /\ peer = 0
    /\ NoSerializer

\* tests::handshake: a client and a server on the two ends of a socket pair
Init == InitWith("pair", Guids)

\* one call of client.advance_handshake()
ClientAdvance ==
    /\ net \in {"pair", "client"}
    /\ ~cfin.ok
    /\ \E r \in ClientAdvanceHandshake(client, uid, s2c, c2s) :
          /\ client' = r.h
          /\ s2c' = r.rx
          /\ c2s' = IF net = "pair" THEN r.tx ELSE <<>>
          /\ cwire' = cwire \o Drop(r.tx, Len(c2s))
          /\ cret' = Ret(r.ret, r.io)
    /\ UNCHANGED <<uid, server, sret, cfin, sfin, swire, net, peer>>
    /\ UNCHANGED serVars

\* one call of server.advance_handshake()
ServerAdvance ==
    /\ net \in {"pair", "server"}
    /\ ~sfin.ok
    /\ \E r \in ServerAdvanceHandshake(server, c2s, s2c) :
          /\ server' = r.h
          /\ c2s' = r.rx
          /\ s2c' = IF net = "pair" THEN r.tx ELSE <<>>
          /\ swire' = swire \o Drop(r.tx, Len(s2c))
          /\ sret' = Ret(r.ret, r.io)
    /\ UNCHANGED <<uid, client, cret, cfin, sfin, cwire, net, peer>>
    /\ UNCHANGED serVars

\* client.try_finish(): Err(self) hands the handshake back
ClientTryFinish ==
    /\ net \in {"pair", "client"}
    /\ ~cfin.ok
    /\ LET f == ClientTryFinishResult(client)
       IN  /\ cfin' = Finished(f)
           /\ client' = f.self
    /\ UNCHANGED <<uid, server, c2s, s2c, cret, sret, sfin, cwire, swire, net, peer>>
    /\ UNCHANGED serVars

\* server.try_finish(): Err(self) hands the handshake back
ServerTryFinish ==
    /\ net \in {"pair", "server"}
    /\ ~sfin.ok
    /\ LET f == ServerTryFinishResult(server)
       IN  /\ sfin' = Finished(f)
           /\ server' = f.self
    /\ UNCHANGED <<uid, client, c2s, s2c, cret, sret, cfin, cwire, swire, net, peer>>
    /\ UNCHANGED serVars

Next ==
    \/ ClientAdvance
    \/ ServerAdvance
    \/ ClientTryFinish
    \/ ServerTryFinish

Spec == Init /\ [][Next]_vars

\* the lines an arbitrary client sends to a server
ClientPeerLines ==
    { W_AUTH \o <<SP>> \o W_EXTERNAL \o <<SP>> \o UidStr(uid) \o CRLF,
      L_BEGIN,
      W_CANCEL \o CRLF,
      L_NEGOTIATE }

\* the first byte an arbitrary client sends
ClientPeerFirst == { <<NUL>>, <<"X">> }

\* the lines an arbitrary server sends to a client
ServerPeerLines ==
    { W_OK \o <<SP>> \o server.server_guid \o CRLF,
      L_AGREE,
      L_ERROR,
      L_REJECTED }

\* the peer of the handshake writes a line to its end of the socket
PeerSend ==
    /\ peer < MaxPeerLines
    /\ \/ /\ net = "server"
          /\ c2s = <<>>
          /\ \E line \in ClientPeerLines :
             \E first \in (IF peer = 0 THEN ClientPeerFirst ELSE { <<>> }) :
                c2s' = c2s \o first \o line
          /\ UNCHANGED s2c
       \/ /\ net = "client"
          /\ s2c = <<>>
          /\ \E line \in ServerPeerLines : s2c' = s2c \o line
          /\ UNCHANGED c2s
    /\ peer' = peer + 1
    /\ UNCHANGED <<uid, client, server, cret, sret, cfin, sfin, cwire, swire, net>>
    /\ UNCHANGED serVars

\* a handshake on a socket whose other end is an arbitrary peer, which has
\* one line in flight at a time: a client facing an arbitrary server, or a
\* server facing an arbitrary client
PeerInit ==
    \/ InitWith("client", Guids) /\ server.client_uid = uid
    \/ InitWith("server", {CHOOSE g \in Guids : TRUE})

PeerNext ==
    \/ ClientAdvance
    \/ ServerAdvance
    \/ ClientTryFinish
    \/ ServerTryFinish
    \/ PeerSend

PeerSpec == PeerInit /\ [][PeerNext]_vars

\* tests::handshake: both handshakes are advanced again and again
LiveNext ==
    \/ ClientAdvance
    \/ ServerAdvance

LiveSpec ==
    Init /\ [][LiveNext]_vars /\ WF_vars(ClientAdvance) /\ WF_vars(ServerAdvance)

\* number of lines the peer of ReplySpec and of CommandSpec sends
MaxLines == 3

\* a word of GuidLen characters that is no GUID
BadGuid == [i \in 1..GuidLen |-> "z"]

\* the reply lines of an arbitrary server: well-formed replies, and OK lines
\* of one token, of three tokens and with a word that is no GUID
ServerReplyLines ==
    { W_OK \o <<SP>> \o server.server_guid \o CRLF,
      W_OK \o CRLF,
      W_OK \o <<SP>> \o server.server_guid \o <<SP, "x">> \o CRLF,
      W_OK \o <<SP>> \o BadGuid \o CRLF,
      L_AGREE,
      L_ERROR,
      L_REJECTED }

\* the server at the other end writes a reply line
ReplySend ==
    /\ net = "client"
    /\ peer < MaxLines
    /\ s2c = <<>>
    /\ \E line \in ServerReplyLines : s2c' = line
    /\ peer' = peer + 1
    /\ UNCHANGED <<uid, client, server, c2s, cret, sret, cfin, sfin, cwire, swire, net>>
    /\ UNCHANGED serVars

ReplyInit == InitWith("client", {CHOOSE g \in Guids : TRUE}) /\ server.client_uid = uid

ReplyNext ==
    \/ ClientAdvance
    \/ ReplySend

\* a ClientHandshake whose server replies with arbitrary lines, one at a time
ReplySpec == ReplyInit /\ [][ReplyNext]_vars

W_DATA == <<"D", "A", "T", "A">>
W_ANONYMOUS == <<"A", "N", "O", "N", "Y", "M", "O", "U", "S">>

\* AUTH EXTERNAL <hex-uid>, CRLF-terminated
AuthLine(u) == W_AUTH \o <<SP>> \o W_EXTERNAL \o <<SP>> \o UidStr(u) \o CRLF

\* the command lines of an arbitrary client: AUTH EXTERNAL with the expected
\* and with another UID and with a word that is no UID, AUTH lines of other
\* shapes, ERROR, BEGIN alone and with a further token, CANCEL,
\* NEGOTIATE_UNIX_FD and an unknown command
ClientCommandLines ==
    { AuthLine(u) : u \in Uids } \cup
    { W_AUTH \o <<SP>> \o W_EXTERNAL \o <<SP, "z", "z">> \o CRLF,
      W_AUTH \o <<SP>> \o W_EXTERNAL \o CRLF,
      W_AUTH \o <<SP>> \o W_ANONYMOUS \o CRLF,
      W_ERROR \o CRLF,
      L_BEGIN,
      W_BEGIN \o <<SP, "x">> \o CRLF,
      W_CANCEL \o CRLF,
      L_NEGOTIATE,
      W_DATA \o CRLF }

\* the client at the other end writes its first byte and a command line, or
\* a further command line
CommandSend ==
    /\ net = "server"
    /\ peer < MaxLines
    /\ c2s = <<>>
    /\ \E line \in ClientCommandLines :
       \E first \in (IF peer = 0 THEN ClientPeerFirst ELSE { <<>> }) :
          c2s' = first \o line
    /\ peer' = peer + 1
    /\ UNCHANGED <<uid, client, server, s2c, cret, sret, cfin, sfin, cwire, swire, net>>
    /\ UNCHANGED serVars

CommandInit == InitWith("server", {CHOOSE g \in Guids : TRUE}) /\ server.client_uid = uid

CommandNext ==
    \/ ServerAdvance
    \/ CommandSend

\* a ServerHandshake whose client sends arbitrary lines, one at a time
CommandSpec == CommandInit /\ [][CommandNext]_vars

\* the UIDs of IdSpec: the small ones and one of several digits
IdUids == (0..MaxUid) \cup {1000 * MaxUid + 7}

\* the code of '+' in hex
W_Plus == ToHex(43)

\* the words an arbitrary client sends as the UID of its AUTH EXTERNAL line:
\* the encoding of u; the encoding with its last character missing, with a
\* chunk that is no hex number, with a signed chunk, and followed by the code
\* of a letter; a lone '+' and '+' before the digits; and a decimal number
\* above u32::MAX
IdWords(u) ==
    { UidStr(u),
      Take(UidStr(u), Len(UidStr(u)) - 1),
      UidStr(u) \o <<"z", "z">>,
      <<"+", "3">> \o UidStr(u),
      UidStr(u) \o ToHex(97),
      W_Plus,
      W_Plus \o UidStr(u),
      HexOfChars(<<"4", "2", "9", "4", "9", "6", "7", "2", "9", "6">>) }

\* a server constructed for the client's UID or for another one, with the
\* first message of a client in flight: NUL, AUTH EXTERNAL and a word
IdInit ==
    /\ net = "server"
    /\ uid \in IdUids
    /\ client = ClientNew
    /\ \E u \in {uid, MaxUid} : server = ServerNew(CHOOSE g \in Guids : TRUE, u)
    /\ \E w \in IdWords(uid) :
          c2s = <<NUL>> \o W_AUTH \o <<SP>> \o W_EXTERNAL \o <<SP>> \o w \o CRLF
    /\ cwire = c2s
    /\ s2c = <<>>
    /\ cret = Ret("None", "None")
    /\ sret = Ret("None", "None")
    /\ cfin = NotCalled
    /\ sfin = NotCalled
    /\ swire = <<>>
    /\ peer = 1
    /\ NoSerializer

IdNext == ServerAdvance

\* a ServerHandshake reading the AUTH EXTERNAL line of a client
IdSpec == IdInit /\ [][IdNext]_vars

\* the state CommandSpec is in when the client has sent NUL, AUTH EXTERNAL
\* with the expected UID, NEGOTIATE_UNIX_FD and CANCEL and the server has sent
\* its three replies; the client has MaxLines - 1 more lines to send
CancelledInit ==
    /\ net = "server"
    /\ uid \in Uids
    /\ client = ClientNew
    /\ server = [ServerNew(CHOOSE g \in Guids : TRUE, uid)
                    EXCEPT !.step = "WaitingForAuth", !.cap_unix_fd = TRUE]
    /\ c2s = <<>>
    /\ s2c = <<>>
    /\ cret = Ret("None", "None")
    /\ sret = Ret("WouldBlock", "Read")
    /\ cfin = NotCalled
    /\ sfin = NotCalled
    /\ cwire = <<>>
    /\ swire = W_OK \o <<SP>> \o server.server_guid \o CRLF \o L_AGREE \o L_REJECTED
    /\ peer = 1
    /\ NoSerializer

LinesInit ==
    \/ ReplyInit
    \/ CommandInit
    \/ CancelledInit

LinesNext ==
    \/ ReplyNext
    \/ CommandNext
    \/ ServerTryFinish

\* a ClientHandshake or a ServerHandshake whose peer sends arbitrary lines,
\* one at a time; the server also after a cancelled authentication
LinesSpec == LinesInit /\ [][LinesNext]_vars

\* serialized_size(ctxt, value) and to_writer(writer, ctxt, value) are called
\* with one value and one context
\* the client writes a line and, while the server has at most one line
\* still to read, a short line behind it: lines follow each other on the
\* socket without a wait for the reply; cwire keeps every byte written
PipeSend ==
    /\ net = "server"
    /\ peer < MaxLines
    /\ Cardinality({ i \in DOMAIN c2s : c2s[i] = LF }) <= 1
    /\ \E line \in (IF c2s = <<>>
                    THEN { AuthLine(uid), L_NEGOTIATE, W_CANCEL \o CRLF, L_BEGIN }
                    ELSE { W_CANCEL \o CRLF, L_BEGIN }) :
       \E first \in (IF peer = 0 THEN ClientPeerFirst ELSE { <<>> }) :
          /\ c2s' = c2s \o first \o line
          /\ cwire' = cwire \o first \o line
    /\ peer' = peer + 1
    /\ UNCHANGED <<uid, client, server, s2c, cret, sret, cfin, sfin, swire, net>>
    /\ UNCHANGED serVars

PipeNext ==
    \/ ServerAdvance
    \/ PipeSend

\* a ServerHandshake whose client sends arbitrary lines without waiting
PipeSpec == CommandInit /\ [][PipeNext]_vars

SerInit ==
    /\ uid = 0
    /\ client = ClientNew
    /\ server = ServerNew(CHOOSE g \in Guids : TRUE, 0)
    /\ c2s = <<>>
    /\ s2c = <<>>
    /\ cret = Ret("None", "None")
    /\ sret = Ret("None", "None")
    /\ cfin = NotCalled
    /\ sfin = NotCalled
    /\ cwire = <<>>
    /\ swire = <<>>
    /\ net = "none"
    /\ peer = 0
    /\ \E i \in 1..Len(SerValues) : value = SerValues[i]
    /\ \E p \in 0..MaxPosition : ctxt = Context(p)
    /\ size_call = CallNew("NullWriteSeek", FdNumber(0), ctxt)
    /\ \E sink \in Sinks \ {"NullWriteSeek"} : write_call = CallNew(sink, FdFds(<<>>), ctxt)

\* serialized_size: the serialization makes its next call on the serializer
SerializedSizeStep ==
    /\ size_call.ret = "running"
    /\ size_call.pc <= Len(Serialize(value))
    /\ size_call' \in CallStep(size_call, Serialize(value))
    /\ UNCHANGED <<value, ctxt, write_call>>
    /\ UNCHANGED hsVars

\* serialized_size returns Size::new(len, ctxt).set_num_fds(n)
SerializedSizeReturn ==
    /\ size_call.ret = "running"
    /\ size_call.pc > Len(Serialize(value))
    /\ size_call' = CallReturn(size_call, "Number")
    /\ UNCHANGED <<value, ctxt, write_call>>
    /\ UNCHANGED hsVars

\* to_writer_for_signature: the serialization makes its next call
ToWriterStep ==
    /\ write_call.ret = "running"
    /\ write_call.pc <= Len(Serialize(value))
    /\ write_call' \in CallStep(write_call, Serialize(value))
    /\ UNCHANGED <<value, ctxt, size_call>>
    /\ UNCHANGED hsVars

\* to_writer_for_signature returns Written::new(len, ctxt).set_fds(fds)
ToWriterReturn ==
    /\ write_call.ret = "running"
    /\ write_call.pc > Len(Serialize(value))
    /\ write_call' = CallReturn(write_call, "Fds")
    /\ UNCHANGED <<value, ctxt, size_call>>
    /\ UNCHANGED hsVars

SerNext ==
    \/ SerializedSizeStep
    \/ SerializedSizeReturn
    \/ ToWriterStep
    \/ ToWriterReturn

\* the size of a value computed and the value written, call by call
SerSpec == SerInit /\ [][SerNext]_vars

----------------------------------------------------------------------------
(* Properties *)

Matching == uid = server.client_uid
Fatal(ret) == ret.r \in {"Handshake", "InvalidGUID"}

\* C1: a client and a server with matching UIDs on one byte stream that are
\* both in Done hold the same GUID and the same cap_unix_fd, and so do the
\* Authenticated values try_finish makes of them
C1_SameGuidAndCap ==
    (net = "pair" /\ Matching) =>
        /\ (client.step = "Done" /\ server.step = "Done") =>
               /\ client.server_guid = server.server_guid
               /\ client.cap_unix_fd = server.cap_unix_fd
        /\ (cfin.ok /\ sfin.ok) =>
               /\ cfin.server_guid = sfin.server_guid
               /\ cfin.cap_unix_fd = sfin.cap_unix_fd

C1_Witness ==
    /\ Matching /\ cret.r = "Ok" /\ sret.r = "Ok"
    /\ cfin.ok /\ sfin.ok /\ cfin.server_guid = server.server_guid

\* no call of advance_handshake can change anything any more
ClientIdle ==
    \A r \in ClientAdvanceHandshake(client, uid, s2c, c2s) :
        r.h = client /\ r.rx = s2c /\ r.tx = c2s
ServerIdle ==
    \A r \in ServerAdvanceHandshake(server, c2s, s2c) :
        r.h = server /\ r.rx = c2s /\ r.tx = s2c

\* C2: with matching UIDs no call of advance_handshake returns an error
\* other than would-block, and the two handshakes, advanced again and again,
\* come to rest only where advance_handshake returns Ok(()) on both sides
C2_BothFinish ==
    (net = "pair" /\ Matching) =>
        /\ ~Fatal(cret)
        /\ ~Fatal(sret)
        /\ (ClientIdle /\ ServerIdle) =>
               /\ \A r \in ClientAdvanceHandshake(client, uid, s2c, c2s) : r.ret = "Ok"
               /\ \A r \in ServerAdvanceHandshake(server, c2s, s2c) : r.ret = "Ok"

\* C4: with a client UID that differs from the expected one the client
\* never reaches Done; the server never leaves WaitingForNull, WaitingForAuth
\* and SendingAuthError, sends REJECTED EXTERNAL and nothing else, and where
\* the two come to rest the server is back in WaitingForAuth with the
\* rejection sent, waiting for input
C4_Rejected ==
    (net = "pair" /\ ~Matching) =>
        /\ client.step # "Done"
        /\ server.step \in {"WaitingForNull", "WaitingForAuth", "SendingAuthError"}
        /\ IsPrefix(swire, L_REJECTED)
        /\ server.step = "SendingAuthError" => swire \o server.buffer = L_REJECTED
        /\ (server.step = "WaitingForAuth" /\ swire # <<>>) =>
               /\ swire = L_REJECTED
               /\ server.buffer = <<>>
               /\ c2s = <<>>
               /\ ServerIdle
        /\ (ClientIdle /\ ServerIdle) =>
               /\ server.step = "WaitingForAuth"
               /\ swire = L_REJECTED
               /\ \A r \in ServerAdvanceHandshake(server, c2s, s2c) :
                      r.ret = "WouldBlock" /\ r.io = "Read"

C4_Witness ==
    /\ net = "pair" /\ ~Matching
    /\ server.step = "WaitingForAuth" /\ swire = L_REJECTED
    /\ client.step = "WaitOauth" /\ client.recv_buffer = <<>> /\ s2c = <<>>
    /\ ClientIdle /\ ServerIdle

\* the bytes a step took from a stream
Taken(before, after) == Take(before, Len(before) - Len(after))

\* C5 (client, receive): a read of the client that reported would-block and
\* is retried in the same step keeps the bytes received so far
C5_ClientKeepsReceived ==
    ( /\ cret = Ret("WouldBlock", "Read")
      /\ client'.step = client.step
      /\ server' = server
      /\ Len(s2c') <= Len(s2c) )
    => client'.recv_buffer = client.recv_buffer \o Taken(s2c, s2c')

\* C5 (server, receive)
C5_ServerKeepsReceived ==
    ( /\ sret = Ret("WouldBlock", "Read")
      /\ server.step \in {"WaitingForAuth", "WaitingForBegin"}
      /\ server'.step = server.step
      /\ swire' = swire
      /\ client' = client
      /\ Len(c2s') <= Len(c2s) )
    => server'.buffer = server.buffer \o Taken(c2s, c2s')

\* C5 (send): after a write that reported would-block, the next bytes on the
\* wire are the rest of the buffer, in order
C5_NoResend ==
    /\ cret = Ret("WouldBlock", "Write") =>
           \/ IsPrefix(cwire', cwire \o client.send_buffer)
           \/ IsPrefix(cwire \o client.send_buffer, cwire')
    /\ sret = Ret("WouldBlock", "Write") =>
           \/ IsPrefix(swire', swire \o server.buffer)
           \/ IsPrefix(swire \o server.buffer, swire')

\* C5: across would-block retries of a step no byte is lost or duplicated,
\* on the client and on the server
C5_NoBytesLost ==
    [][C5_ClientKeepsReceived /\ C5_ServerKeepsReceived /\ C5_NoResend]_vars

\* the parts of C5 that hold: the server's receive buffer and both send
\* buffers
C5_ServerAndSendsKeep == [][C5_ServerKeepsReceived /\ C5_NoResend]_vars

\* C6: after a would-block, next_io_operation names the socket operation
\* that blocked, and neither blocking_finish reaches unreachable!()
C6_NextIoIsBlockedOp ==
    /\ cret.r = "WouldBlock" =>
           /\ ClientNextIoOperation(client) = cret.io
           /\ cret.io \in {"Read", "Write"}
           /\ ClientPollFlags(client) # "unreachable"
    /\ sret.r = "WouldBlock" =>
           /\ ServerNextIoOperation(server) = sret.io
           /\ sret.io \in {"Read", "Write"}
           /\ ServerPollFlags(server) # "unreachable"
           /\ ServerPollFlags(server) = IF sret.io = "Read" THEN "POLLIN" ELSE "POLLOUT"

C6_Witness ==
    /\ cret = Ret("WouldBlock", "Write") /\ client.step = "Done"
    /\ sret = Ret("WouldBlock", "Read") /\ server.step = "WaitingForBegin"

C8_OkMeansDone ==
    /\ cret.r = "Ok" =>
           /\ client.step = "Done"
           /\ client.send_buffer = <<>>
           /\ ClientTryFinishResult(client).ok
    /\ sret.r = "Ok" =>
           /\ server.step = "Done"
           /\ ServerTryFinishResult(server).ok

C8_Witness == cret.r = "Ok" /\ sret.r = "Ok" /\ ~cfin.called /\ ~sfin.called

ClientStepRank(step) ==
    CASE step = "Init" -> 1
      [] step = "WaitOauth" -> 2
      [] step = "WaitNegociateFd" -> 3
      [] step = "Done" -> 4

\* C9: the client's step moves forward one step at a time along Init,
\* WaitOauth, WaitNegociateFd, Done, and Done is terminal
C9_ClientForward ==
    [][ /\ ClientStepRank(client'.step) \in
              {ClientStepRank(client.step), ClientStepRank(client.step) + 1}
        /\ client.step = "Done" =>
              /\ client'.step = "Done"
              /\ client'.server_guid = client.server_guid
              /\ client'.cap_unix_fd = client.cap_unix_fd ]_vars

C9_Witness == client.step = "Done" /\ cret.r = "Ok" /\ client.recv_buffer = L_AGREE

\* the server is past authentication
ServerAuthenticated ==
    server.step \in {"SendingAuthOK", "WaitingForBegin", "SendingBeginMessage", "Done"}

\* the first line of the server's buffer is BEGIN and nothing else
ServerHoldsBegin ==
    /\ EndsWith(server.buffer, CRLF)
    /\ SplitWhitespace(ReadLine(server.buffer)) = <<W_BEGIN>>

\* C3: the server is past authentication, and so in Done, only while the
\* acceptance of an AUTH EXTERNAL line with the expected UID is in force (no
\* rejection and no return to WaitingForAuth since); BEGIN in WaitingForAuth
\* is a fatal error, also of every later call, and never leads to Done
C3_DoneOnlyAuthenticated ==
    /\ server.step = "Done" => server.accepted = server.client_uid
    /\ ServerAuthenticated <=> server.accepted # NoUid
    /\ server.accepted \in {NoUid, server.client_uid}
    /\ (server.step = "WaitingForAuth" /\ ServerHoldsBegin) =>
           /\ sret.r = "Handshake"
           /\ \A r \in ServerAdvanceHandshake(server, c2s, s2c) :
                  r.ret = "Handshake" /\ r.h = server

C3_Witness ==
    /\ server.step = "WaitingForAuth" /\ server.buffer = L_BEGIN
    /\ sret.r = "Handshake"
    /\ swire = W_OK \o <<SP>> \o server.server_guid \o CRLF \o L_REJECTED

\* the request lines of the client
ClientRequest(k) ==
    CASE k = 1 -> <<NUL>> \o W_AUTH \o <<SP>> \o W_EXTERNAL \o <<SP>> \o UidStr(uid) \o CRLF
      [] k = 2 -> W_NEGOTIATE_UNIX_FD \o CRLF
      [] k = 3 -> W_BEGIN \o CRLF

RECURSIVE ClientRequests(_)
ClientRequests(k) == IF k = 0 THEN <<>> ELSE ClientRequests(k - 1) \o ClientRequest(k)

\* what the client has sent and has still to send are the request lines of
\* the steps it has left; while a request is not completely sent, the
\* receive buffer still is the complete reply that made the client queue it
C10_QueuedInOrder ==
    /\ cwire \o client.send_buffer = ClientRequests(ClientStepRank(client.step) - 1)
    /\ client.send_buffer # <<>> =>
           CASE client.step = "WaitOauth" -> client.recv_buffer = <<>>
             [] client.step = "WaitNegociateFd" ->
                    /\ EndsWith(client.recv_buffer, CRLF)
                    /\ SplitWhitespace(ReadLine(client.recv_buffer))
                           = <<W_OK, client.server_guid>>
             [] client.step = "Done" ->
                    /\ EndsWith(client.recv_buffer, CRLF)
                    /\ \/ StartsWith(client.recv_buffer, W_AGREE_UNIX_FD)
                       \/ StartsWith(client.recv_buffer, W_ERROR)

\* a call that takes bytes from the socket has first sent all the client had
\* to send
C10_SentBeforeRead ==
    Len(s2c') < Len(s2c) => IsPrefix(cwire \o client.send_buffer, cwire')

\* C10: the client sends NUL, AUTH EXTERNAL <hex-uid>, NEGOTIATE_UNIX_FD and
\* BEGIN, CRLF-terminated, in this order and nothing else; it reads a reply
\* only after the request is completely sent and queues the next request
\* only after the reply was received
C10_ClientWire ==
    [][C10_QueuedInOrder /\ C10_QueuedInOrder' /\ C10_SentBeforeRead]_vars

C10_Witness ==
    /\ net = "client" /\ client.step = "Done" /\ cret.r = "Ok"
    /\ cwire = ClientRequests(3) /\ ~client.cap_unix_fd

\* the bytes a call of the client took from the socket
ClientGot == IF Len(s2c') <= Len(s2c) THEN Taken(s2c, s2c') ELSE <<>>

\* the line is OK and a GUID that parses, and nothing else
IsAuthReply(line) ==
    LET words == SplitWhitespace(ReadLine(line))
    IN  Len(words) = 2 /\ words[1] = W_OK /\ GuidValid(words[2])

\* a call takes the client out of WaitOauth only with a complete reply line
\* OK <guid>: the GUID is recorded, NEGOTIATE_UNIX_FD follows the AUTH line on
\* the wire or in the send buffer, and the step is WaitNegociateFd
C11_AdvanceOnOk ==
    (client.step \in {"Init", "WaitOauth"} /\ client'.step \notin {"Init", "WaitOauth"}) =>
        /\ EndsWith(ClientGot, CRLF)
        /\ IsAuthReply(ClientGot)
        /\ client'.server_guid = SplitWhitespace(ReadLine(ClientGot))[2]
        /\ client'.step = "WaitNegociateFd"
        /\ cwire' \o client'.send_buffer = ClientRequests(1) \o L_NEGOTIATE
        /\ ~Fatal(cret')

\* a call in WaitOauth that received a complete line of another form fails
\* and leaves the client where it was
C11_OtherReplyFails ==
    ( /\ client.step = "WaitOauth"
      /\ EndsWith(ClientGot, CRLF)
      /\ ~IsAuthReply(ClientGot) )
    => /\ Fatal(cret')
       /\ client'.step = "WaitOauth"
       /\ client'.server_guid = NoGuid
       /\ client'.send_buffer = <<>>
       /\ cwire' = ClientRequests(1)

\* in WaitOauth a complete line in the receive buffer is a reply that was
\* refused, and a fatal return in WaitOauth comes with such a line
C11_RefusedReply ==
    client.step = "WaitOauth" =>
        /\ client.server_guid = NoGuid
        /\ EndsWith(client.recv_buffer, CRLF) <=> Fatal(cret)
        /\ Fatal(cret) => ~IsAuthReply(client.recv_buffer)

\* C11: in WaitOauth the client advances only on a reply line of exactly two
\* tokens, OK and a GUID that parses; it then records the GUID, queues
\* NEGOTIATE_UNIX_FD and is in WaitNegociateFd.  Every other complete reply is
\* a fatal error of the call and the client stays in WaitOauth
C11_AuthReply ==
    [][ /\ C11_AdvanceOnOk
        /\ C11_OtherReplyFails
        /\ C11_RefusedReply
        /\ C11_RefusedReply' ]_vars

C11_Witness ==
    /\ net = "client" /\ peer = 3
    /\ client.step = "WaitNegociateFd" /\ client.server_guid = server.server_guid
    /\ client.send_buffer = <<>> /\ cwire = ClientRequests(2)

\* in Done the receive buffer still holds the reply that ended the
\* negotiation: it begins with AGREE_UNIX_FD exactly when cap_unix_fd is
\* true, with ERROR otherwise, and BEGIN is the last request
C12_DoneOnReply ==
    client.step = "Done" =>
        /\ EndsWith(client.recv_buffer, CRLF)
        /\ client.cap_unix_fd <=> StartsWith(client.recv_buffer, W_AGREE_UNIX_FD)
        /\ ~client.cap_unix_fd => StartsWith(client.recv_buffer, W_ERROR)
        /\ cwire \o client.send_buffer = ClientRequests(2) \o L_BEGIN
        /\ ~Fatal(cret)

\* the call that reaches Done is a call in WaitNegociateFd that received the
\* reply
C12_ReachDone ==
    (client.step # "Done" /\ client'.step = "Done") =>
        /\ client.step = "WaitNegociateFd"
        /\ client'.recv_buffer = ClientGot
        /\ client'.server_guid = client.server_guid

\* a call in WaitNegociateFd that received a complete line beginning with
\* neither word fails and leaves the client where it was
C12_OtherReplyFails ==
    ( /\ client.step = "WaitNegociateFd"
      /\ EndsWith(ClientGot, CRLF)
      /\ ~StartsWith(ClientGot, W_AGREE_UNIX_FD)
      /\ ~StartsWith(ClientGot, W_ERROR) )
    => /\ cret'.r = "Handshake"
       /\ client'.step = "WaitNegociateFd"
       /\ client'.cap_unix_fd = client.cap_unix_fd
       /\ client'.send_buffer = <<>>
       /\ cwire' = ClientRequests(2)

ServerGot == IF Len(c2s') <= Len(c2s) THEN Taken(c2s, c2s') ELSE <<>>

IsSending(step) == step \in {"SendingAuthError", "SendingAuthOK", "SendingBeginMessage"}

\* the part of a reply the server has still to send
ServerUnsent(h) == IF IsSending(h.step) THEN h.buffer ELSE <<>>

\* the step in which a call of the server reads its next line
ServerReadingStep ==
    CASE server.step = "WaitingForNull" -> "WaitingForAuth"
      [] server.step = "SendingAuthError" -> "WaitingForAuth"
      [] server.step \in {"SendingAuthOK", "SendingBeginMessage"} -> "WaitingForBegin"
      [] OTHER -> server.step

\* the line a call of the server has before it once it has read: what was
\* buffered by earlier calls and what this call took from the socket
ServerLineRead ==
    CASE server.step = "WaitingForNull" ->
             IF ServerGot # <<>> /\ Head(ServerGot) = NUL THEN Tail(ServerGot) ELSE <<>>
      [] IsSending(server.step) -> ServerGot
      [] OTHER -> server.buffer \o ServerGot

\* a call of the server read a complete line in the given step
ServerRead(step) ==
    /\ peer' = peer
    /\ ServerReadingStep = step
    /\ EndsWith(ServerLineRead, CRLF)

\* the call queued the reply after what was still unsent: the reply follows
\* on the wire, its unsent rest in the buffer
ServerReplied(reply) ==
    swire' \o ServerUnsent(server') = swire \o ServerUnsent(server) \o reply

\* the call replied and is in the step sending the reply with a part of it
\* unsent, or has sent it all and is back reading with an empty buffer
ServerLoops(reply, via, back) ==
    /\ ServerReplied(reply)
    /\ server'.step \in {via, back}
    /\ server'.step = via => server'.buffer # <<>> /\ sret' = Ret("WouldBlock", "Write")
    /\ server'.step = back => server'.buffer = <<>> /\ sret' = Ret("WouldBlock", "Read")

\* in WaitingForNull nothing was buffered, parsed or sent
C13_NothingBeforeNul ==
    server.step = "WaitingForNull" =>
        /\ server.buffer = <<>>
        /\ swire = <<>>
        /\ server.accepted = NoUid
        /\ sret.r \in {"None", "WouldBlock", "Handshake"}

\* a call in WaitingForNull that takes a byte other than 0 takes that byte
\* only, fails and leaves the server as it was; a call leaves WaitingForNull
\* exactly when the first byte it takes is 0, and the line it then reads
\* starts after that byte
C13_FirstByte ==
    (server.step = "WaitingForNull" /\ peer' = peer) =>
        /\ (ServerGot # <<>> /\ Head(ServerGot) # NUL) =>
               /\ Len(ServerGot) = 1
               /\ server' = server
               /\ sret'.r = "Handshake"
        /\ server'.step # "WaitingForNull" <=> (ServerGot # <<>> /\ Head(ServerGot) = NUL)
        /\ ServerGot = <<>> => server' = server /\ sret' = Ret("WouldBlock", "Read")
        /\ (server'.step = "WaitingForAuth" /\ swire' = <<>>) =>
               server'.buffer = Tail(ServerGot)

\* C13: in WaitingForNull the server reads one byte: 0 takes it to
\* WaitingForAuth, any other byte is a fatal error of the call and the server
\* stays in WaitingForNull; no line is parsed before the 0 byte was read
C13_NulFirst == [][C13_NothingBeforeNul /\ C13_NothingBeforeNul' /\ C13_FirstByte]_vars

C13_Witness ==
    /\ net = "server" /\ peer = 1
    /\ server.step = "WaitingForNull" /\ sret.r = "Handshake"
    /\ StartsWith(c2s, W_AUTH)

\* OK <server-guid>, CRLF-terminated
OkLine == W_OK \o <<SP>> \o server.server_guid \o CRLF

\* (in the formulas below the line a call read and its words are bound as
\* values: \A line \in {ServerLineRead})

\* a call that read AUTH EXTERNAL <hex-uid> with the expected UID in
\* WaitingForAuth replies OK <server-guid> through SendingAuthOK and records
\* the acceptance
C14_AcceptsExpected ==
    \A line \in {ServerLineRead} : \A words \in {SplitWhitespace(ReadLine(line))} :
        ( /\ ServerRead("WaitingForAuth")
          /\ Len(words) = 3
          /\ words[1] = W_AUTH
          /\ words[2] = W_EXTERNAL
          /\ id_from_str(words[3]) = Parsed(server.client_uid) )
        => /\ ServerLoops(OkLine, "SendingAuthOK", "WaitingForBegin")
           /\ server'.accepted = server.client_uid

\* SendingAuthOK holds an unsent rest of the OK line, and is left only by a
\* call that sends all of it, for WaitingForBegin
C14_FlushedBeforeBegin ==
    server.step = "SendingAuthOK" =>
        /\ server.buffer # <<>>
        /\ EndsWith(swire \o server.buffer, OkLine)
        /\ Len(server.buffer) <= Len(OkLine)
        /\ server'.step # "SendingAuthOK" =>
               /\ IsPrefix(swire \o server.buffer, swire')
               /\ ServerReadingStep = "WaitingForBegin"
               /\ ServerGot = <<>> => server'.step = "WaitingForBegin"

\* C14: AUTH EXTERNAL <hex-uid> with the expected UID makes the server queue
\* OK <server-guid>, with the GUID given at construction, and go to
\* SendingAuthOK; it is in WaitingForBegin only once that line is sent
\* completely
C14_AuthOk ==
    [][ /\ C14_AcceptsExpected
        /\ C14_FlushedBeforeBegin
        /\ server'.server_guid = server.server_guid
        /\ server'.client_uid = server.client_uid ]_vars

C14_Witness ==
    /\ net = "server" /\ peer = 1
    /\ server.step = "WaitingForBegin" /\ server.buffer = <<>>
    /\ swire = OkLine /\ sret = Ret("WouldBlock", "Read")

\* the words are an AUTH EXTERNAL line with a well-formed UID that is not the
\* expected one, an AUTH line of another shape, or an ERROR line
IsRefusedAuth(words) ==
    \/ /\ Len(words) = 3
       /\ words[1] = W_AUTH
       /\ words[2] = W_EXTERNAL
       /\ id_from_str(words[3]).ok
       /\ id_from_str(words[3]).val # server.client_uid
    \/ /\ Word(words, 1) = W_AUTH
       /\ ~(Len(words) = 3 /\ words[2] = W_EXTERNAL)
    \/ Word(words, 1) = W_ERROR

\* a call that read such a line in WaitingForAuth replies REJECTED EXTERNAL
\* through SendingAuthError, returns no error but would-block, and no
\* acceptance is in force
C15_Rejects ==
    \A line \in {ServerLineRead} : \A words \in {SplitWhitespace(ReadLine(line))} :
        (ServerRead("WaitingForAuth") /\ IsRefusedAuth(words)) =>
            /\ ServerLoops(L_REJECTED, "SendingAuthError", "WaitingForAuth")
            /\ server'.accepted = NoUid
            /\ server'.cap_unix_fd = server.cap_unix_fd

\* SendingAuthError holds an unsent rest of its line, and is left only by a
\* call that sends all of it, for WaitingForAuth
C15_FlushedBeforeAuth ==
    server.step = "SendingAuthError" =>
        /\ server.buffer # <<>>
        /\ server.accepted = NoUid
        /\ server'.step # "SendingAuthError" =>
               /\ IsPrefix(swire \o server.buffer, swire')
               /\ ServerGot = <<>> => server'.step = "WaitingForAuth"

\* C15: in WaitingForAuth an AUTH EXTERNAL line with a well-formed UID other
\* than the expected one, an AUTH line of another shape and an ERROR line
\* make the server queue REJECTED EXTERNAL, go to SendingAuthError and, the
\* line sent, return to WaitingForAuth; advance_handshake does not fail
C15_AuthRejected == [][C15_Rejects /\ C15_FlushedBeforeAuth]_vars

C15_Witness ==
    /\ net = "server" /\ peer = 3
    /\ server.step = "WaitingForAuth" /\ server.buffer = <<>>
    /\ swire = L_REJECTED \o L_REJECTED \o L_REJECTED
    /\ sret = Ret("WouldBlock", "Read")

\* the words are no command WaitingForAuth knows: the first is none of AUTH,
\* ERROR and BEGIN, or it is BEGIN and others follow
IsUnknownInAuth(words) ==
    \/ Word(words, 1) \notin {W_AUTH, W_ERROR, W_BEGIN}
    \/ Word(words, 1) = W_BEGIN /\ Len(words) > 1

\* C16 as claimed: an unrecognized line in WaitingForAuth makes the server
\* queue REJECTED EXTERNAL and loop back to WaitingForAuth via
\* SendingAuthError
C16_UnknownRejected ==
    [][ \A line \in {ServerLineRead} : \A words \in {SplitWhitespace(ReadLine(line))} :
          (ServerRead("WaitingForAuth") /\ IsUnknownInAuth(words)) =>
              ServerLoops(L_REJECTED, "SendingAuthError", "WaitingForAuth") ]_vars

\* C16 as amended: an unrecognized line in WaitingForAuth makes the server
\* queue ERROR Unsupported command and loop back to WaitingForAuth via
\* SendingAuthError
C16_UnknownIsError ==
    [][ \A line \in {ServerLineRead} : \A words \in {SplitWhitespace(ReadLine(line))} :
          (ServerRead("WaitingForAuth") /\ IsUnknownInAuth(words)) =>
              /\ ServerLoops(L_ERROR, "SendingAuthError", "WaitingForAuth")
              /\ server'.accepted = NoUid ]_vars

C16_Witness ==
    /\ net = "server" /\ peer = 2
    /\ server.step = "WaitingForAuth" /\ server.buffer = <<>>
    /\ swire = L_ERROR \o L_ERROR
    /\ sret = Ret("WouldBlock", "Read")

\* a call that read BEGIN and nothing else in WaitingForBegin ends in Done and
\* returns Ok(()): it sends nothing but what was unsent before, and keeps
\* cap_unix_fd; and Done is reached by such a call only
C17_BeginEnds ==
    \A line \in {ServerLineRead} : \A words \in {SplitWhitespace(ReadLine(line))} :
        /\ (ServerRead("WaitingForBegin") /\ words = <<W_BEGIN>>) =>
               /\ server'.step = "Done"
               /\ sret'.r = "Ok"
               /\ swire' = swire \o ServerUnsent(server)
               /\ server'.cap_unix_fd = server.cap_unix_fd
               /\ server'.accepted = server.accepted
        /\ (server.step # "Done" /\ server'.step = "Done") =>
               ServerRead("WaitingForBegin") /\ words = <<W_BEGIN>>

\* a call that read NEGOTIATE_UNIX_FD and nothing else in WaitingForBegin
\* sets cap_unix_fd and replies AGREE_UNIX_FD through SendingBeginMessage
C17_NegotiateAgrees ==
    \A line \in {ServerLineRead} : \A words \in {SplitWhitespace(ReadLine(line))} :
        (ServerRead("WaitingForBegin") /\ words = <<W_NEGOTIATE_UNIX_FD>>) =>
            /\ ServerLoops(L_AGREE, "SendingBeginMessage", "WaitingForBegin")
            /\ server'.cap_unix_fd
            /\ server'.accepted = server.accepted

\* SendingBeginMessage holds an unsent rest of its line, and is left only by
\* a call that sends all of it, for WaitingForBegin
C17_FlushedBeforeBegin ==
    server.step = "SendingBeginMessage" =>
        /\ server.buffer # <<>>
        /\ server'.step # "SendingBeginMessage" =>
               /\ IsPrefix(swire \o server.buffer, swire')
               /\ ServerGot = <<>> => server'.step = "WaitingForBegin"

\* C17: in WaitingForBegin the line BEGIN with no further token takes the
\* server to Done without sending anything; the line NEGOTIATE_UNIX_FD sets
\* cap_unix_fd, queues AGREE_UNIX_FD and, the line sent, the server is back
\* in WaitingForBegin
C17_BeginAndNegotiate ==
    [][C17_BeginEnds /\ C17_NegotiateAgrees /\ C17_FlushedBeforeBegin]_vars

C17_Witness ==
    /\ net = "server" /\ peer = 3
    /\ server.step = "Done" /\ server.cap_unix_fd /\ sret.r = "Ok"
    /\ swire = OkLine \o L_AGREE

\* the words are CANCEL alone or an ERROR line
IsCancelOrError(words) == words = <<W_CANCEL>> \/ Word(words, 1) = W_ERROR

\* the words are no command WaitingForBegin knows
IsUnknownInBegin(words) ==
    \/ Word(words, 1) \notin {W_BEGIN, W_CANCEL, W_ERROR, W_NEGOTIATE_UNIX_FD}
    \/ Word(words, 1) \in {W_BEGIN, W_CANCEL, W_NEGOTIATE_UNIX_FD} /\ Len(words) > 1

\* C18 as claimed: CANCEL, ERROR and unrecognized lines in WaitingForBegin
\* make the server queue a rejection or error line and, the line sent, loop
\* back to WaitingForBegin itself, the accepted authentication kept
C18_LoopsToBegin ==
    [][ \A line \in {ServerLineRead} : \A words \in {SplitWhitespace(ReadLine(line))} :
          ( /\ ServerRead("WaitingForBegin")
            /\ IsCancelOrError(words) \/ IsUnknownInBegin(words) )
          => /\ \/ ServerReplied(L_REJECTED)
                \/ ServerReplied(L_ERROR)
             /\ ~Fatal(sret')
             /\ IsSending(server'.step) \/ server'.step = "WaitingForBegin"
             /\ server'.accepted = server.accepted ]_vars

\* C18 as amended: CANCEL and ERROR make the server queue REJECTED EXTERNAL
\* and return through SendingAuthError to WaitingForAuth, the acceptance
\* dropped; an unrecognized line makes it queue ERROR Unsupported command
\* and return through SendingBeginMessage to WaitingForBegin, the acceptance
\* kept; advance_handshake fails in neither case
C18_CancelDropsAuth ==
    [][ \A line \in {ServerLineRead} : \A words \in {SplitWhitespace(ReadLine(line))} :
          /\ (ServerRead("WaitingForBegin") /\ IsCancelOrError(words)) =>
                 /\ ServerLoops(L_REJECTED, "SendingAuthError", "WaitingForAuth")
                 /\ server'.accepted = NoUid
          /\ (ServerRead("WaitingForBegin") /\ IsUnknownInBegin(words)) =>
                 /\ ServerLoops(L_ERROR, "SendingBeginMessage", "WaitingForBegin")
                 /\ server'.accepted = server.accepted
                 /\ server'.accepted = server.client_uid ]_vars

C18_Witness ==
    /\ net = "server" /\ peer = 3
    /\ server.step = "WaitingForAuth" /\ server.accepted = NoUid
    /\ swire = OkLine \o L_ERROR \o L_REJECTED
    /\ sret = Ret("WouldBlock", "Read")

\* the word is pairs of hex digits
IsHexPairs(w) == Len(w) % 2 = 0 /\ \A i \in 1..Len(w) : IsHexDigit(w[i])

\* the number the k-th pair of hex digits writes
PairCode(w, k) == 16 * HexDigitVal(w[2 * k - 1]) + HexDigitVal(w[2 * k])

\* the word is pairs of hex digits that are the character codes of a decimal
\* number: digits ('0' is 48), after at most one '+' (43)
DecodesToDecimal(w) ==
    /\ IsHexPairs(w)
    /\ LET n == Len(w) \div 2
           first == IF n > 0 /\ PairCode(w, 1) = 43 THEN 2 ELSE 1
       IN  first <= n /\ \A k \in first..n : PairCode(w, k) \in 48..57

\* the word sent as the UID of the AUTH EXTERNAL line
IdWord == SplitWhitespace(Tail(cwire))[3]

\* C19: id_from_str returns u for the client's encoding of every UID u, and
\* the server reading that encoding accepts or rejects by comparing u; a word
\* that is not pairs of hex digits decoding to a decimal number makes
\* id_from_str fail, and the server return a fatal error without replying
C19_IdRoundTrip ==
    /\ \A u \in IdUids : id_from_str(UidStr(u)) = Parsed(u)
    /\ IdWord = UidStr(uid) =>
           /\ ~Fatal(sret)
           /\ server.accepted \in {NoUid, uid}
           /\ c2s = <<>> =>
                  /\ server.accepted = uid <=> server.client_uid = uid
                  /\ swire \o ServerUnsent(server)
                         = IF server.client_uid = uid THEN OkLine ELSE L_REJECTED
    /\ ~DecodesToDecimal(IdWord) =>
           /\ ~id_from_str(IdWord).ok
           /\ swire = <<>>
           /\ server.accepted = NoUid
           /\ server.step \in {"WaitingForNull", "WaitingForAuth"}
           /\ c2s = <<>> => sret.r = "Handshake" /\ server.buffer = Tail(cwire)
    /\ id_from_str(IdWord).ok => DecodesToDecimal(IdWord)

C19_Witness ==
    /\ uid > MaxUid /\ IdWord = UidStr(uid)
    /\ server.accepted = uid /\ server.step = "WaitingForBegin"
    /\ swire = OkLine

\* C20: the discard sink keeps nothing and never fails (serialized_size fails
\* only on a value nested too deep); the counter of the
\* real serializer is the number of bytes its writer holds; after the same
\* number of calls the two counters agree; the length serialized_size
\* reports is the length to_writer reports and the number of bytes in the
\* writer; and writing to a Cursor fails only where a descriptor is cloned or
\* a container is too deep
C20_SizeAgrees ==
    /\ size_call.ser.out = <<>>
    /\ size_call.ret = "Err" => size_call.err = "MaxDepthExceeded"
    /\ write_call.ser.bytes_written = Len(write_call.ser.out)
    /\ (size_call.pc = write_call.pc /\ write_call.ret # "Err") =>
           size_call.ser.bytes_written = write_call.ser.bytes_written
    /\ (size_call.ret = "Ok" /\ write_call.ret = "Ok") =>
           /\ size_call.len = write_call.len
           /\ write_call.len = Len(write_call.ser.out)
    /\ (write_call.ser.sink = "Cursor" /\ write_call.ret = "Err") =>
           Serialize(value)[write_call.pc].op \in {"add_fd", "inc"}

C20_Witness ==
    /\ value = Struct(<<Str(HelloWorld \o <<"!">>), Num(8)>>) /\ ctxt.position = 0
    /\ size_call.ret = "Ok" /\ write_call.ret = "Ok"
    /\ size_call.len = 32 /\ Len(write_call.ser.out) = 32

\* C22: in an encode into an owned list, two references to one descriptor get
\* one index and distinct descriptors get distinct indices, and the list has
\* one entry for each descriptor referenced
C22_OneEntryPerDescriptor ==
    LET refs == write_call.refs
    IN  /\ \A i, j \in 1..Len(refs) : (refs[i].fd = refs[j].fd) <=> (refs[i].idx = refs[j].idx)
        /\ Len(write_call.ser.fds.fds) = Cardinality({refs[i].fd : i \in 1..Len(refs)})

\* the length of an owned list, the count of a counted one
FdListLen(fds) == IF fds.form = "Fds" THEN Len(fds.fds) ELSE fds.n

\* a step of a call: the indices add_fd has returned so far, the one just
\* returned among them, are below the length of the table, and the table
\* after the step is the table before it with what was appended
FdTableGrows(before, after) ==
    /\ \A i \in 1..Len(after.refs) : after.refs[i].idx < FdListLen(after.ser.fds)
    /\ Len(after.refs) > Len(before.refs) => after.val < FdListLen(after.ser.fds)
    /\ FdListLen(after.ser.fds) >= FdListLen(before.ser.fds)
    /\ Take(after.ser.fds.fds, Len(before.ser.fds.fds)) = before.ser.fds.fds
    /\ Take(after.refs, Len(before.refs)) = before.refs

\* C23: every index add_fd returns is below the table's length (owned list)
\* or count right after the call, and the table only grows at its end: the
\* indices returned earlier stay valid and keep naming the same entries
C23_IndicesStayValid ==
    [][FdTableGrows(size_call, size_call') /\ FdTableGrows(write_call, write_call')]_vars

C23_Witness ==
    /\ Len(write_call.refs) = 3 /\ Len(write_call.ser.fds.fds) = 3
    /\ write_call.refs[3].idx = 2
    /\ Len(size_call.refs) = 3 /\ size_call.ser.fds.n = 3

\* a step of a call in which add_padding(alignment) returned Ok
Padded(before, after, alignment) ==
    /\ before.ret = "running"
    /\ after.pc = before.pc + 1
    /\ Serialize(value)[before.pc] = PadOp(alignment)

\* what add_padding(alignment) did in such a step: it returned the number of
\* bytes it wrote, below the alignment; bytes_written grew by it; the
\* position after it is a multiple of the alignment and no position before
\* it was; and the writer got that many zero bytes
PaddedRight(before, after, alignment) ==
    LET padding == after.val
        pos == before.ser.ctxt.position + before.ser.bytes_written
    IN  /\ padding \in 0..(alignment - 1)
        /\ after.ser.bytes_written = before.ser.bytes_written + padding
        /\ (pos + padding) % alignment = 0
        /\ \A fewer \in 0..(padding - 1) : (pos + fewer) % alignment # 0
        /\ pos % alignment = 0 => padding = 0 /\ after.ser = before.ser
        /\ after.ser.out = IF after.ser.sink = "NullWriteSeek"
                           THEN <<>>
                           ELSE before.ser.out \o [i \in 1..padding |-> NUL]
        /\ after.ser.fds = before.ser.fds /\ after.ser.ctxt = before.ser.ctxt

\* C24: add_padding(alignment) writes the smallest number of zero bytes,
\* between 0 and alignment - 1, that makes ctxt.position + bytes_written a
\* multiple of alignment, returns that number and adds it to bytes_written;
\* at an aligned position it writes nothing
C24_PaddingIsSmallest ==
    [][\A alignment \in {1, 2, 4, 8} :
           /\ Padded(size_call, size_call', alignment) =>
                  PaddedRight(size_call, size_call', alignment)
           /\ Padded(write_call, write_call', alignment) =>
                  PaddedRight(write_call, write_call', alignment)]_vars

C24_Witness ==
    /\ value = Num(8) /\ ctxt.position = 3
    /\ write_call.pc = 2 /\ write_call.val = 5
    /\ write_call.ser.bytes_written = 5
    /\ write_call.ser.out = <<NUL, NUL, NUL, NUL, NUL>>

\* a struct of a string and a 64-bit integer
IsStrAndU64(v) ==
    v.k = "struct" /\ Len(v.fields) = 2 /\ v.fields[1].k = "str" /\ v.fields[2] = Num(8)

\* what a call at base position 0 makes of a string of n bytes and of a struct
\* of a string and a 64-bit integer
SizedAsDocumented(call) ==
    /\ (value.k = "str" /\ call.ret = "Ok") =>
           /\ call.len = 4 + Len(value.s) + 1
           /\ call.ser.sink # "NullWriteSeek" =>
                  call.ser.out = U32(Len(value.s)) \o value.s \o <<NUL>>
    /\ IsStrAndU64(value) =>
           LET end == 4 + Len(value.fields[1].s) + 1
               at == CHOOSE at \in end..(end + 7) : at % 8 = 0
           IN  /\ ( /\ call.ret = "running"
                     /\ call.pc = Len(Serialize(value)) - 1
                     /\ Serialize(value)[call.pc] = WriteOp(Bytes(8)) ) =>
                      call.ser.bytes_written = at
               /\ call.ret = "Ok" => call.len = at + 8
    /\ (value = Str(HelloWorld) /\ call.ret = "Ok") => call.len = 16
    /\ (value = Struct(<<Str(HelloWorld \o <<"!">>), Num(8)>>) /\ call.ret = "Ok") =>
           call.len = 32

\* C25: at base position 0 a string of n bytes takes 4 + n + 1 bytes (its
\* length n, its bytes, a NUL), and in a struct of a string and a 64-bit
\* integer the integer starts at the next multiple of 8 after the string:
\* "hello world" has size 16 and ("hello world!", 42_u64) has size 32
C25_DocSizes ==
    ctxt.position = 0 => SizedAsDocumented(size_call) /\ SizedAsDocumented(write_call)

C25_Witness ==
    /\ ctxt.position = 0
    /\ value = Str(HelloWorld)
    /\ size_call.ret = "Ok" /\ size_call.len = 16
    /\ write_call.ret = "Ok" /\ Len(write_call.ser.out) = 16

DepthKinds == {"array", "structure", "variant"}

\* the counter a value's kind belongs to
KindOf(v) ==
    CASE v.k = "struct" -> "structure"
      [] v.k \in {"array", "variant"} -> v.k
      [] OTHER -> "none"

RECURSIVE DepthOf(_, _)

\* the largest number of containers of one kind that lie within one another
\* in a value
DepthOf(v, kind) ==
    LET within == {DepthOf(v.fields[i], kind) : i \in 1..Len(v.fields)} \cup {0}
    IN  (IF KindOf(v) = kind THEN 1 ELSE 0)
            + (CHOOSE d \in within : \A e \in within : e <= d)

RECURSIVE OpenAfter(_, _)

\* the kinds of the containers entered and not left after the first n calls of
\* a serialization, the last entered last; "unmatched" at the end when a
\* container was left that was not the last one entered
OpenAfter(ops, n) ==
    IF n = 0 THEN <<>>
    ELSE LET open == OpenAfter(ops, n - 1)
             op == ops[n]
         IN  CASE op.op = "inc" -> Append(open, op.kind)
               [] op.op = "dec" ->
                      IF open # <<>> /\ open[Len(open)] = op.kind
                      THEN SubSeq(open, 1, Len(open) - 1)
                      ELSE Append(open, "unmatched")
               [] OTHER -> open

\* the counters of a call are the numbers of containers of each kind that are
\* open, none above the maximum; the call succeeds only on a value within the
\* maxima, with every counter back at 0, and fails with the depth error only
\* on a value beyond one of them
DepthsRight(call) ==
    LET open == OpenAfter(Serialize(value), call.pc - 1)
    IN  /\ \A i \in 1..Len(open) : open[i] \in DepthKinds
        /\ \A kind \in DepthKinds :
               /\ call.ser.container_depths[kind] =
                      Cardinality({i \in 1..Len(open) : open[i] = kind})
               /\ call.ser.container_depths[kind] <= MaxDepth
        /\ call.ret = "Ok" =>
               /\ \A kind \in DepthKinds : DepthOf(value, kind) <= MaxDepth
               /\ open = <<>>
        /\ call.err = "MaxDepthExceeded" =>
               /\ call.ret = "Err"
               /\ Serialize(value)[call.pc].op = "inc"
               /\ call.ser.container_depths[Serialize(value)[call.pc].kind] = MaxDepth
               /\ \E kind \in DepthKinds : DepthOf(value, kind) > MaxDepth

\* C26: the depth counters go up on entering a container and down once on
\* leaving it, the container left being the last one entered; a value nested
\* to the maximum is encoded, and one nested a level deeper fails with the
\* depth error, which ends the traversal
C26_DepthCounters ==
    /\ DepthsRight(size_call)
    /\ DepthsRight(write_call)
    /\ size_call.ret # "running" =>
           (size_call.ret = "Ok" <=> \A kind \in DepthKinds : DepthOf(value, kind) <= MaxDepth)

C26_Witness ==
    /\ value = Struct(<<Struct(<<Num(1)>>), Nested("array", MaxDepth + 1, Num(1)), Num(8)>>)
    /\ write_call.err = "MaxDepthExceeded"
    /\ write_call.ser.container_depths = [array |-> MaxDepth, structure |-> 1, variant |-> 0]
    /\ write_call.ser.bytes_written > 0
    /\ size_call.err = "MaxDepthExceeded"

\* a call of the client that returned a fatal error left the client in the
\* step that read the offending line, which is in the receive buffer, and
\* changed nothing but the step (Init to WaitOauth) and the buffers
ClientFatalKeeps ==
    \A buf \in {client'.recv_buffer} :
        Fatal(cret') =>
            /\ client'.step = IF client.step = "Init" THEN "WaitOauth" ELSE client.step
            /\ client'.step \in {"WaitOauth", "WaitNegociateFd"}
            /\ client'.server_guid = client.server_guid
            /\ client'.cap_unix_fd = client.cap_unix_fd
            /\ client'.send_buffer = <<>>
            /\ EndsWith(buf, CRLF)
            /\ client'.step = "WaitOauth" =>
                   /\ ~IsAuthReply(buf)
                   /\ client'.server_guid = NoGuid
                   /\ cret'.r = IF Len(SplitWhitespace(ReadLine(buf))) = 2
                                    /\ SplitWhitespace(ReadLine(buf))[1] = W_OK
                                THEN "InvalidGUID" ELSE "Handshake"
            /\ client'.step = "WaitNegociateFd" =>
                   /\ ~StartsWith(buf, W_AGREE_UNIX_FD)
                   /\ ~StartsWith(buf, W_ERROR)
                   /\ ~client'.cap_unix_fd

\* a call of the server that returned a fatal error left the server in
\* WaitingForNull, having taken a first byte that is not NUL, or in
\* WaitingForAuth with the offending line in the buffer: BEGIN alone, or AUTH
\* EXTERNAL with a word that is no UID; it changed nothing but the step
\* (to WaitingForAuth, in which it read) and the buffer
ServerFatalKeeps ==
    \A buf \in {server'.buffer} : \A words \in {SplitWhitespace(ReadLine(buf))} :
        Fatal(sret') =>
            /\ server'.server_guid = server.server_guid
            /\ server'.cap_unix_fd = server.cap_unix_fd
            /\ server'.client_uid = server.client_uid
            /\ server'.accepted = NoUid
            /\ swire' = swire \o ServerUnsent(server)
            /\ \/ /\ server'.step = "WaitingForNull"
                  /\ server.step = "WaitingForNull"
                  /\ buf = <<>>
                  /\ sret' # sret => ServerGot # <<>> /\ Head(ServerGot) # NUL
               \/ /\ server'.step = "WaitingForAuth"
                  /\ server.step \in {"WaitingForNull", "WaitingForAuth", "SendingAuthError"}
                  /\ EndsWith(buf, CRLF)
                  /\ \/ words = <<W_BEGIN>>
                     \/ /\ Len(words) = 3
                        /\ words[1] = W_AUTH
                        /\ words[2] = W_EXTERNAL
                        /\ ~id_from_str(words[3]).ok

\* C27: a fatal error of advance_handshake is raised without a transition:
\* the step that found the error stays the current step, and the GUID and
\* cap_unix_fd are what they were; for the client on an unexpected AUTH
\* reply, a GUID that does not parse and an unexpected UNIX_FD reply, for the
\* server on a first byte that is not NUL, a UID that does not parse and a
\* BEGIN before authentication
C27_FatalKeepsStep == [][ClientFatalKeeps /\ ServerFatalKeeps]_vars

C27_Witness ==
    /\ net = "server"
    /\ Fatal(sret)
    /\ server.step = "WaitingForAuth"
    /\ server.cap_unix_fd
    /\ SplitWhitespace(ReadLine(server.buffer)) = <<W_BEGIN>>

\* C28: whenever the client's try_finish would return an Authenticated, the
\* send buffer is empty: the BEGIN line was written to the socket
C28_FinishedWhenFlushed ==
    net \in {"pair", "client"} /\ ClientTryFinishResult(client).ok
        => client.send_buffer = <<>>

\* C29: the client holds a GUID (Some, and one that parsed) exactly in the
\* steps WaitNegociateFd and Done, and none (None) in Init and WaitOauth; the
\* Authenticated that try_finish returned carries that GUID
C29_GuidPresent ==
    net \in {"pair", "client"} =>
        /\ client.step \in {"WaitNegociateFd", "Done"} =>
               client.server_guid # NoGuid /\ GuidValid(client.server_guid)
        /\ client.step \in {"Init", "WaitOauth"} => client.server_guid = NoGuid
        /\ cfin.ok => cfin.server_guid = client.server_guid /\ client.step = "Done"

C29_Witness ==
    /\ net = "client"
    /\ cfin.ok
    /\ GuidValid(cfin.server_guid)
    /\ client.step = "Done"

\* the line occurs in the bytes at position i
LineAt(bytes, i, line) ==
    i + Len(line) - 1 <= Len(bytes) /\ SubSeq(bytes, i, i + Len(line) - 1) = line

\* the server answered AGREE_UNIX_FD after the last OK it sent: the peer sent
\* NEGOTIATE_UNIX_FD after the AUTH line that was last accepted
AgreedSinceOk(sent) ==
    \E i \in 1..Len(sent) :
        /\ LineAt(sent, i, L_AGREE)
        /\ \A j \in (i + 1)..Len(sent) : ~LineAt(sent, j, W_OK \o <<SP>>)

\* C30: a server in Done, and the session its try_finish returns, has
\* cap_unix_fd only if NEGOTIATE_UNIX_FD came after the AUTH line that was last
\* accepted
C30_CapIsNegotiatedAnew ==
    net = "server" =>
        /\ server.step = "Done" /\ server.cap_unix_fd => AgreedSinceOk(swire)
        /\ sfin.ok /\ sfin.cap_unix_fd => AgreedSinceOk(swire)

\* the lines the server sends
ServerAnswers == { OkLine, L_REJECTED, L_ERROR, L_AGREE }

\* the bytes are whole lines of the server, one after the other
RECURSIVE IsReplies(_)
IsReplies(bytes) ==
    \/ bytes = <<>>
    \/ \E r \in ServerAnswers : StartsWith(bytes, r) /\ IsReplies(Drop(bytes, Len(r)))

IsWaiting(step) == step \in {"WaitingForAuth", "WaitingForBegin"}

\* the received bytes the buffer holds: all of it while the server waits for
\* a line or is done, nothing while it sends
ServerPending(h) == IF IsWaiting(h.step) \/ h.step = "Done" THEN h.buffer ELSE <<>>

\* the bytes the server took from the socket since the handshake began
ServerReceived == Take(cwire, Len(cwire) - Len(c2s))

\* between two calls: what is sent and to be sent are whole replies, a buffer
\* being sent is the rest of one reply, and a buffer being filled is the end
\* of what was received and, unless the call failed on it, has no complete
\* line at its end
ServerBufferIsOneOrTheOther ==
    net = "server" =>
        /\ IsReplies(swire \o ServerUnsent(server))
        /\ IsSending(server.step) =>
               /\ server.buffer # <<>>
               /\ \E r \in ServerAnswers : EndsWith(r, server.buffer)
        /\ EndsWith(ServerReceived, ServerPending(server))
        /\ IsWaiting(server.step) /\ ~Fatal(sret) => ~EndsWith(server.buffer, CRLF)
        /\ server.step = "WaitingForNull" => server.buffer = <<>> /\ swire = <<>>
        /\ server.step = "Done" =>
               SplitWhitespace(ReadLine(server.buffer)) = <<W_BEGIN>>

\* one call: the bytes it queued are whole replies; the received bytes left
\* in the buffer are the end of those buffered before and those taken by the
\* call; when it replied, the bytes it dropped end with a line, and when it
\* did not, it dropped nothing
ServerCallKeepsApart ==
    \A got \in {IF server.step = "WaitingForNull" /\ ServerGot # <<>>
                 THEN Tail(ServerGot) ELSE ServerGot} :
    \A input \in {ServerPending(server) \o got} :
    \A kept \in {ServerPending(server')} :
    \A before \in {swire \o ServerUnsent(server)} :
    \A after \in {swire' \o ServerUnsent(server')} :
        net = "server" =>
            /\ IsPrefix(before, after)
            /\ IsReplies(Drop(after, Len(before)))
            /\ EndsWith(input, kept)
            /\ after # before =>
                   /\ Len(kept) < Len(input)
                   /\ EndsWith(Take(input, Len(input) - Len(kept)), CRLF)
            /\ after = before => kept = input
            /\ after # before /\ server'.step # "Done" /\ ~Fatal(sret') =>
                   ~EndsWith(kept, CRLF)

\* C31: the buffer of the server holds received bytes or a reply, never
\* both: it is empty when the server begins to wait for a line, the reply
\* takes the place of the whole of what was received, and received bytes are
\* added only once the reply is sent completely; nothing the server sends is
\* a byte of the peer and nothing it parses is a byte of a reply
C31_BufferNeverMixes ==
    [][ /\ ServerBufferIsOneOrTheOther
        /\ server' # server \/ swire' # swire \/ c2s' # c2s =>
               ServerBufferIsOneOrTheOther' /\ ServerCallKeepsApart ]_vars

C31_Witness ==
    /\ net = "server"
    /\ server.step = "SendingBeginMessage"
    /\ server.buffer # L_AGREE
    /\ EndsWith(L_AGREE, server.buffer)
    /\ StartsWith(swire, OkLine)
    /\ c2s # <<>>
    /\ cwire # <<>>

FormsAsCreated ==
    /\ size_call.ser.fds.form = "Number"
    /\ size_call.ser.fds.fds = <<>>
    /\ write_call.ser.fds.form = "Fds"
    /\ write_call.ser.fds.n = 0
    /\ size_call.ret # "unreachable"
    /\ write_call.ret # "unreachable"

\* C33: the descriptor table keeps its form through the encode: each call on
\* the serializer leaves a count a count and a list a list, serialized_size
\* ends with a count, to_writer_for_signature with a list, and neither ends
\* in its unreachable arm
C33_FormKept ==
    [][ /\ FormsAsCreated
        /\ FormsAsCreated'
        /\ size_call'.ser.fds.form = size_call.ser.fds.form
        /\ write_call'.ser.fds.form = write_call.ser.fds.form ]_vars

C33_Witness ==
    /\ size_call.ret = "Ok"
    /\ write_call.ret = "Ok"
    /\ size_call.ser.fds = FdNumber(2)
    /\ Len(write_call.ser.fds.fds) = 2

====
